---- MODULE Spec2Model ----
(***************************************************************************)
(* A model of buttplug-py: the multi-version message codec                 *)
(* (buttplug/messages), the event bus and the WebSocket connector          *)
(* (buttplug/events, buttplug/connectors) and the client session           *)
(* (buttplug/client/client.py).                                            *)
(*                                                                         *)
(* Eleven specifications share the variables:                               *)
(*   Spec       the session: callers of Client.send, start_scanning,       *)
(*              stop_scanning and Client.devices interleaved with the      *)
(*              frames that a transport passes to Client._handle_message;  *)
(*   SpecCodec  the codec as a pure function: Encoder.encode and           *)
(*              Decoder.decode applied to inputs drawn by Init;            *)
(*   SpecWs     Client._connect over the WebsocketConnector, with the      *)
(*              fairness of the asyncio event loop;                        *)
(*   SpecDev    the operations of a Device and of its actuators and        *)
(*              sensors, for each protocol version;                        *)
(*   SpecConn   Client.connect, the ping loop task and Client.disconnect   *)
(*              over a Connector that calls its callback;                  *)
(*   SpecBuild  Device.__init__ applied to the capability maps drawn by    *)
(*              Init, and Device.stop on the Device it built;              *)
(*   SpecIds    Client.send for as many requests as make the id generator  *)
(*              wrap around;                                               *)
(*   SpecEvents an EventManager: on, off and emit with listeners that      *)
(*              record their invocation or stop the chain;                 *)
(*   SpecReg    the device registry under DeviceAdded, DeviceRemoved and   *)
(*              the device lists of _connect, for each protocol version;   *)
(*   SpecLink   a WebsocketConnector on its own: connect, send, disconnect *)
(*              and the end of its receive loop, in any order;             *)
(*   SpecLife   a client that connects and reconnects over a transport     *)
(*              that may close: every ping loop task it creates, and       *)
(*              Client.disconnect.                                         *)
(* JSON text is modelled by the value it parses to: a frame is a sequence  *)
(* of objects, an object a sequence of <<key, value>> items (a Python dict *)
(* keeps insertion order), a field map a record keyed by strings.          *)
(***************************************************************************)
EXTENDS Integers, Sequences, FiniteSets, TLC

VARIABLES
    \* ---- Client (client.py:12-27) and the asyncio objects it creates
    v,            \* Client._v, the negotiated ProtocolSpec
    tasks,        \* Client._tasks: message id -> reference to a future
    futs,         \* heap of asyncio futures, a reference [fut |-> i] is futs[i]
    scanning,     \* Client._scanning: None or a reference to a future
    devices,      \* Client._devices: device index -> reference to a Device
    devs,         \* heap of Device objects, a reference [dev |-> i] is devs[i]
    pointer,      \* message_id_generator._pointer
    sent,         \* frames handed to Connector.send, in order
    log,          \* records the handler logged for the last frame it handled
    calls,        \* per caller: the coroutine's position and locals
    snaps,        \* snapshots returned by Client.devices
    \* ---- codec inputs and outputs (SpecCodec)
    cin,          \* the input drawn: a message value or a frame, and a version
    cout,         \* what encode / decode made of it
    \* ---- WebsocketConnector and the handshake over it (SpecWs)
    ws            \* connector state, socket queues, handshake position

vars == <<v, tasks, futs, scanning, devices, devs, pointer, sent, log, calls,
          snaps, cin, cout, ws>>

sessionVars == <<v, tasks, futs, scanning, devices, devs, pointer, sent, log,
                 calls, snaps>>
codecVars == <<cin, cout>>

\* Python's None.
None == [none |-> TRUE]

-----------------------------------------------------------------------------
(* utils/cases.py: conversion between snake_case and PascalCase.           *)

LowerChars == "abcdefghijklmnopqrstuvwxyz"
UpperChars == "ABCDEFGHIJKLMNOPQRSTUVWXYZ"

CharAt(s, i) == SubSeq(s, i, i)

IsUpper(c) == \E i \in 1..Len(UpperChars) : CharAt(UpperChars, i) = c
IsLower(c) == \E i \in 1..Len(LowerChars) : CharAt(LowerChars, i) = c

\* str.upper() and str.lower() on one character.
CharUpper(c) ==
    IF IsLower(c)
    THEN CharAt(UpperChars, CHOOSE i \in 1..Len(LowerChars) : CharAt(LowerChars, i) = c)
    ELSE c
CharLower(c) ==
    IF IsUpper(c)
    THEN CharAt(LowerChars, CHOOSE i \in 1..Len(UpperChars) : CharAt(UpperChars, i) = c)
    ELSE c

RECURSIVE StrUpper(_)
StrUpper(s) == IF s = "" THEN "" ELSE CharUpper(CharAt(s, 1)) \o StrUpper(SubSeq(s, 2, Len(s)))
RECURSIVE StrLower(_)
StrLower(s) == IF s = "" THEN "" ELSE CharLower(CharAt(s, 1)) \o StrLower(SubSeq(s, 2, Len(s)))

\* str.capitalize(): first character upper-cased, the rest lower-cased.
Capitalize(s) ==
    IF s = "" THEN "" ELSE CharUpper(CharAt(s, 1)) \o StrLower(SubSeq(s, 2, Len(s)))

\* s.split(sep) for a one-character separator: empty pieces are kept.
RECURSIVE SplitOn(_, _, _)
SplitOn(s, sep, cur) ==
    IF s = "" THEN <<cur>>
    ELSE IF CharAt(s, 1) = sep
         THEN <<cur>> \o SplitOn(SubSeq(s, 2, Len(s)), sep, "")
         ELSE SplitOn(SubSeq(s, 2, Len(s)), sep, cur \o CharAt(s, 1))

\* s.split(): split on runs of blanks, empty pieces dropped.
SplitBlank(s) == SelectSeq(SplitOn(s, " ", ""), LAMBDA w : w # "")

RECURSIVE Join(_, _)
Join(ws_, sep) ==
    IF ws_ = <<>> THEN ""
    ELSE IF Len(ws_) = 1 THEN ws_[1]
    ELSE ws_[1] \o sep \o Join(Tail(ws_), sep)

\* cases.py:5-8: the words that are upper-cased instead of capitalized.
acronyms == {"rssi", "fw12"}

\* cases.py:12: part.capitalize() if part not in acronyms else part.upper()
PascalPart(part) ==
    IF part \notin acronyms THEN Capitalize(part) ELSE StrUpper(part)

PascalParts(parts) == [i \in 1..Len(parts) |-> PascalPart(parts[i])]

\* The parts capitalized but joined by the underscore they were split on.
pascal_case_underscored(s) == Join(PascalParts(SplitOn(s, "_", "")), "_")

\* cases.py:11-13
pascal_case(s) == Join(PascalParts(SplitOn(s, "_", "")), "")

\* re.sub('([A-Z]+)', r' \1', s): a blank before every maximal run of capitals.
RECURSIVE SubUpperRuns(_, _)
SubUpperRuns(s, i) ==
    IF i > Len(s) THEN ""
    ELSE (IF IsUpper(CharAt(s, i)) /\ (i = 1 \/ ~IsUpper(CharAt(s, i - 1)))
          THEN " " ELSE "")
         \o CharAt(s, i) \o SubUpperRuns(s, i + 1)

\* re.sub('([A-Z][a-z]+)', r' \1', s): a blank before every capital that is
\* followed by a lower-case letter (the matches cannot overlap).
RECURSIVE SubCapWords(_, _)
SubCapWords(s, i) ==
    IF i > Len(s) THEN ""
    ELSE (IF IsUpper(CharAt(s, i)) /\ i < Len(s) /\ IsLower(CharAt(s, i + 1))
          THEN " " ELSE "")
         \o CharAt(s, i) \o SubCapWords(s, i + 1)

LowerParts(parts) == [i \in 1..Len(parts) |-> StrLower(parts[i])]

\* cases.py:16-18
snake_case(s) ==
    Join(LowerParts(SplitBlank(SubCapWords(SubUpperRuns(s, 1), 1))), "_")

\* utils/dict.py:4-6: {f(key): value for key, value in d.items()}. Keys that f
\* maps to the same key collapse to one entry.
\* f names the function applied: the callers pass pascal_case or snake_case.
\* The snake_case of the keys of a device and of its attributes, computed
\* once: a table of the function, that a look-up reads in place of a call.
SnakeCased ==
    [k \in {"Id", "DeviceName", "DeviceIndex", "DeviceMessages", "Devices",
            "FeatureCount", "StepCount", "FeatureDescriptor", "ActuatorType",
            "SensorType", "SensorRange", "Endpoint"} |-> snake_case(k)]

Call(f, key) ==
    CASE f = "pascal_case" -> pascal_case(key)
      [] f = "snake_case" ->
            IF key \in DOMAIN SnakeCased THEN SnakeCased[key]
            ELSE snake_case(key)

apply_to_keys(d, f) ==
    [k2 \in {Call(f, k) : k \in DOMAIN d} |->
        d[CHOOSE k \in DOMAIN d : Call(f, k) = k2]]

-----------------------------------------------------------------------------
(* messages/machinery.py, v0.py .. v3.py: the catalog.                     *)

\* machinery.py:10-22
ProtocolSpec == 0..3
ProtocolSpec_first == 0
ProtocolSpec_last == 3

\* v0.py:8-28
v0_messages ==
    {"Ok", "Error", "Ping", "RequestServerInfo", "ServerInfo", "StartScanning",
     "StopScanning", "ScanningFinished", "RequestDeviceList", "DeviceList",
     "DeviceAdded", "DeviceRemoved", "StopDeviceCmd", "StopAllDevices",
     "SingleMotorVibrateCmd", "KiirooCmd", "FleshlightLaunchFW12Cmd",
     "LovenseCmd", "VorzeA10CycloneCmd"}

\* v1.py:8-24
v1_messages ==
    (v0_messages \cup {"RequestServerInfo", "ServerInfo", "DeviceList",
                       "DeviceAdded", "VibrateCmd", "LinearCmd", "RotateCmd"})
    \ {"SingleMotorVibrateCmd", "KiirooCmd", "FleshlightLaunchFW12Cmd",
       "LovenseCmd", "VorzeA10CycloneCmd"}

\* v2.py:8-23
v2_messages ==
    v1_messages \cup {"DeviceList", "DeviceAdded", "BatteryLevelCmd",
                      "BatteryLevelReading", "RSSILevelCmd", "RSSILevelReading",
                      "RawWriteCmd", "RawReadCmd", "RawReading",
                      "RawSubscribeCmd", "RawUnsubscribeCmd"}

\* v3.py:8-24
v3_messages ==
    (v2_messages \cup {"DeviceList", "DeviceAdded", "ScalarCmd", "SensorReadCmd",
                       "SensorReading", "SensorSubscribeCmd",
                       "SensorUnsubscribeCmd"})
    \ {"VibrateCmd", "BatteryLevelCmd", "BatteryLevelReading", "RSSILevelCmd",
       "RSSILevelReading"}

\* Incoming._messages[i], set by each version module.
Incoming_messages(i) ==
    CASE i = 0 -> v0_messages
      [] i = 1 -> v1_messages
      [] i = 2 -> v2_messages
      [] i = 3 -> v3_messages

\* A message class is named by the version module that defines it and its
\* class name; req are the dataclass fields without a default, opt those
\* that default to None. Every class inherits id (machinery.py:80, 127).
Class(i, name) == [v |-> i, name |-> name]

\* Incoming._registry[i]: the Incoming subclasses module vi defines
\* (Incoming.__init_subclass__ files each under the Incoming._v of its module).
Incoming_registry(i) ==
    CASE i = 0 -> {"Ok", "Error", "ServerInfo", "ScanningFinished", "DeviceList",
                   "DeviceAdded", "DeviceRemoved"}
      [] i = 1 -> {"DeviceList", "DeviceAdded"}
      [] i = 2 -> {"ServerInfo", "DeviceList", "DeviceAdded",
                   "BatteryLevelReading", "RSSILevelReading", "RawReading"}
      [] i = 3 -> {"DeviceList", "DeviceAdded", "SensorReading"}

\* The dataclass fields of the Incoming class (i, name).
IncomingFields(i, name) ==
    CASE name \in {"Ok", "ScanningFinished"} -> [req |-> {"id"}, opt |-> {}]
      [] name = "Error" ->
            [req |-> {"id", "error_message", "error_code"}, opt |-> {}]
      [] name = "ServerInfo" /\ i = 0 ->
            [req |-> {"id", "server_name", "major_version", "minor_version",
                      "build_version", "message_version", "max_ping_time"},
             opt |-> {}]
      [] name = "ServerInfo" /\ i = 2 ->
            [req |-> {"id", "server_name", "message_version", "max_ping_time"},
             opt |-> {}]
      [] name = "DeviceList" -> [req |-> {"id", "devices"}, opt |-> {}]
      [] name = "DeviceAdded" /\ i < 3 ->
            [req |-> {"id", "device_name", "device_index", "device_messages"},
             opt |-> {}]
      [] name = "DeviceAdded" /\ i = 3 ->
            [req |-> {"id", "device_name", "device_index", "device_messages"},
             opt |-> {"device_message_timing_gap", "device_display_name"}]
      [] name = "DeviceRemoved" -> [req |-> {"id", "device_index"}, opt |-> {}]
      [] name = "BatteryLevelReading" ->
            [req |-> {"id", "device_index", "battery_level"}, opt |-> {}]
      [] name = "RSSILevelReading" ->
            [req |-> {"id", "device_index", "rssi_level"}, opt |-> {}]
      [] name = "RawReading" ->
            [req |-> {"id", "device_index", "endpoint", "data"}, opt |-> {}]
      [] name = "SensorReading" ->
            [req |-> {"id", "device_index", "sensor_index", "sensor_type", "data"},
             opt |-> {}]

\* The Outgoing classes each version module defines, with their fields
\* (all but the defaulted ones are required; id is assigned, not passed).
OutgoingClasses(i) ==
    CASE i = 0 -> {"Ping", "RequestServerInfo", "StartScanning", "StopScanning",
                   "RequestDeviceList", "StopDeviceCmd", "StopAllDevices",
                   "SingleMotorVibrateCmd", "KiirooCmd",
                   "FleshlightLaunchFW12Cmd", "LovenseCmd", "VorzeA10CycloneCmd"}
      [] i = 1 -> {"RequestServerInfo", "VibrateCmd", "LinearCmd", "RotateCmd"}
      [] i = 2 -> {"BatteryLevelCmd", "RSSILevelCmd", "RawWriteCmd", "RawReadCmd",
                   "RawSubscribeCmd", "RawUnsubscribeCmd"}
      [] i = 3 -> {"ScalarCmd", "SensorReadCmd", "SensorSubscribeCmd",
                   "SensorUnsubscribeCmd"}

OutgoingFields(i, name) ==
    CASE name \in {"Ping", "StartScanning", "StopScanning", "RequestDeviceList",
                   "StopAllDevices"} -> {"id"}
      [] name = "RequestServerInfo" /\ i = 0 -> {"id", "client_name"}
      [] name = "RequestServerInfo" /\ i = 1 ->
            {"id", "client_name", "message_version"}
      [] name \in {"StopDeviceCmd", "BatteryLevelCmd", "RSSILevelCmd"} ->
            {"id", "device_index"}
      [] name = "SingleMotorVibrateCmd" -> {"id", "device_index", "speed"}
      [] name \in {"KiirooCmd", "LovenseCmd"} -> {"id", "device_index", "command"}
      [] name = "FleshlightLaunchFW12Cmd" ->
            {"id", "device_index", "position", "speed"}
      [] name = "VorzeA10CycloneCmd" ->
            {"id", "device_index", "speed", "clockwise"}
      [] name = "VibrateCmd" -> {"id", "device_index", "speeds"}
      [] name = "LinearCmd" -> {"id", "device_index", "vectors"}
      [] name = "RotateCmd" -> {"id", "device_index", "rotations"}
      [] name = "RawWriteCmd" ->
            {"id", "device_index", "endpoint", "data", "write_with_response"}
      [] name = "RawReadCmd" ->
            {"id", "device_index", "endpoint", "expected_length", "wait_for_data"}
      [] name \in {"RawSubscribeCmd", "RawUnsubscribeCmd"} ->
            {"id", "device_index", "endpoint"}
      [] name = "ScalarCmd" -> {"id", "device_index", "scalars"}
      [] name \in {"SensorReadCmd", "SensorSubscribeCmd", "SensorUnsubscribeCmd"} ->
            {"id", "device_index", "sensor_index", "sensor_type"}

-----------------------------------------------------------------------------
(* messages/machinery.py: Encoder and Decoder.  A message value is         *)
(* [cls |-> Class(i, name), fields |-> the instance's __dict__]; a         *)
(* dataclass field that is None is left out of the record.  The result of  *)
(* a call that may raise is [raised |-> the exception or "", value |-> _]. *)

Return(x) == [raised |-> "", value |-> x]
Raise(e) == [raised |-> e, value |-> None]

Message(i, name, fields) == [cls |-> Class(i, name), fields |-> fields]

\* The fields that hold a list of Field instances (Speed, Vector, Rotation,
\* Scalar): v1.py:104, 123, 142 and v3.py:111.
FieldListKeys == {"speeds", "vectors", "rotations", "scalars"}

\* machinery.py:86-94: Encoder.default on an Outgoing, with the inner Field
\* instances the JSON encoder passes back to default.
Encoder_default(o) ==
    LET inner(k) == IF k \in FieldListKeys
                    THEN [j \in 1..Len(o.fields[k]) |->
                             apply_to_keys(o.fields[k][j], "pascal_case")]
                    ELSE o.fields[k]
        dict == [k \in DOMAIN o.fields |-> inner(k)]
    IN  << <<o.cls.name, apply_to_keys(dict, "pascal_case")>> >>

\* JSONEncoder.encode of a list of messages: one array, one object each.
Encoder_encode(msgs) == [j \in 1..Len(msgs) |-> Encoder_default(msgs[j])]

\* The keyword arguments a Field or message dataclass accepts.
Accepts(fields, data) ==
    /\ fields.req \subseteq DOMAIN data
    /\ DOMAIN data \subseteq fields.req \cup fields.opt

\* DeviceMessageAttributes of module vi (v1.py:46-48, v2.py:50-53,
\* v3.py:36-47): every field defaults to None.
AttributesFields(i) ==
    CASE i = 1 -> {"feature_count"}
      [] i = 2 -> {"feature_count", "step_count"}
      [] i = 3 -> {"feature_descriptor", "step_count", "actuator_type",
                   "sensor_type", "sensor_range", "endpoint"}

\* A JSON value whose type the code does not know beforehand (the value of
\* DeviceMessages and the values in it) carries its JSON type: an array is
\* JList(seq), an object JDict(record).
JList(seq) == [list |-> seq]
JDict(rec) == [dict |-> rec]
IsList(x) == "list" \in DOMAIN x
IsDict(x) == "dict" \in DOMAIN x

\* What a comprehension over calls that may raise yields: the exception of
\* the first call that raises, or the list of the values.
Gather(rs) ==
    IF \E j \in 1..Len(rs) : rs[j].raised # ""
    THEN Raise(rs[CHOOSE j \in 1..Len(rs) :
                    /\ rs[j].raised # ""
                    /\ \A h \in 1..(j - 1) : rs[h].raised = ""].raised)
    ELSE Return([j \in 1..Len(rs) |-> rs[j].value])

\* The same for a dict comprehension; every call raises the same exception.
GatherDict(rs) ==
    IF \E k \in DOMAIN rs : rs[k].raised # "" THEN Raise("TypeError")
    ELSE Return([k \in DOMAIN rs |-> rs[k].value])

\* The dataclass __init__ of DeviceMessageAttributes of module vi refuses a
\* keyword it does not define.
DeviceMessageAttributes_init(i, a) ==
    IF DOMAIN a \subseteq AttributesFields(i) THEN Return(a)
    ELSE Raise("TypeError")

\* DeviceMessageAttributes(**attrs): ** needs a mapping, FieldMeta converts
\* the keys (machinery.py:25-28).
DeviceMessageAttributes(i, attrs) ==
    IF ~IsDict(attrs) THEN Raise("TypeError")
    ELSE DeviceMessageAttributes_init(i, apply_to_keys(attrs.dict, "snake_case"))

\* v3.py:61-64: [DeviceMessageAttributes(**attr) for attr in attrs]. Iterating
\* a dict yields its keys, strings, which ** refuses.
AttributesList(i, attrs) ==
    IF IsList(attrs)
    THEN Gather([j \in 1..Len(attrs.list) |->
                    DeviceMessageAttributes(i, attrs.list[j])])
    ELSE IF attrs.dict = <<>> THEN Return(<<>>)
    ELSE Raise("TypeError")

\* The __post_init__ of Device and DeviceAdded on device_messages: v0 keeps
\* the value as it is; v1 and v2 convert each value of device_messages.items();
\* v3 each element of each value (v1.py:57-61, v2.py:62-66, v3.py:58-64).
\* The result is a record from name to attributes (v3: to their sequence).
ConvertDeviceMessages(i, dm) ==
    IF i = 0 THEN Return(dm)
    ELSE IF ~IsDict(dm) THEN Raise("AttributeError")
    ELSE IF i \in {1, 2}
    THEN GatherDict([k \in DOMAIN dm.dict |->
                        DeviceMessageAttributes(i, dm.dict[k])])
    ELSE GatherDict([k \in DOMAIN dm.dict |-> AttributesList(i, dm.dict[k])])

\* The object after __post_init__ stored the converted device_messages.
WithDeviceMessages(d, dm) ==
    IF dm.raised # "" THEN dm
    ELSE Return([d EXCEPT !.device_messages = dm.value])

\* The dataclass fields of Device of module vi.
DeviceFields(i) ==
    [req |-> {"device_name", "device_index", "device_messages"},
     opt |-> IF i = 3 THEN {"device_message_timing_gap", "device_display_name"}
             ELSE {}]

\* The dataclass __init__ of Device and its __post_init__.
DeviceField_init(i, d) ==
    IF ~Accepts(DeviceFields(i), d) THEN Raise("TypeError")
    ELSE WithDeviceMessages(d, ConvertDeviceMessages(i, d.device_messages))

\* Device(**device) of module vi (v0.py:107-111, v1.py:51-61, v2.py:56-66,
\* v3.py:50-64); FieldMeta converts the keys.
DeviceField(i, device) == DeviceField_init(i, apply_to_keys(device, "snake_case"))

\* ErrorCode (errors/server.py:35-40).
ErrorCode == 0..4

\* The instance of class (i, name) with the given __dict__, unless r raised.
Instance(i, name, r) ==
    IF r.raised # "" THEN r ELSE Return(Message(i, name, r.value))

\* DeviceList.__post_init__ (v0.py:118-122, v1.py:68-72 and alike).
WithDevices(data, ds) ==
    IF ds.raised # "" THEN ds ELSE Return([data EXCEPT !.devices = ds.value])

\* cls(**data) for the Incoming class (i, name): the dataclass __init__ and
\* its __post_init__ (v0.py:50-52, 78-80, 118-122, v1.py:68-85 and alike).
Construct(i, name, data) ==
    IF ~Accepts(IncomingFields(i, name), data) THEN Raise("TypeError")
    ELSE IF name = "Error" /\ data.error_code \notin ErrorCode
    THEN Raise("ValueError")
    ELSE IF name = "ServerInfo" /\ data.message_version \notin ProtocolSpec
    THEN Raise("ValueError")
    ELSE IF name = "DeviceList"
    THEN Instance(i, name,
            WithDevices(data, Gather([j \in 1..Len(data.devices) |->
                                         DeviceField(i, data.devices[j])])))
    ELSE IF name = "DeviceAdded"
    THEN Instance(i, name,
            WithDeviceMessages(data,
                               ConvertDeviceMessages(i, data.device_messages)))
    ELSE Return(Message(i, name, data))

\* A walk that starts at ProtocolSpec.first and goes up: the oldest variant.
Resolve_oldest(message_type, data, i) ==
    IF \A j \in ProtocolSpec_first..i : message_type \notin Incoming_registry(j)
    THEN Return(None)
    ELSE Construct(CHOOSE j \in ProtocolSpec_first..i :
                      /\ message_type \in Incoming_registry(j)
                      /\ \A h \in ProtocolSpec_first..(j - 1) :
                            message_type \notin Incoming_registry(h),
                   message_type, data)

\* machinery.py:75-78: the walk from version i down to ProtocolSpec.first;
\* None when no version registers the name.
RECURSIVE Resolve(_, _, _)
Resolve(message_type, data, i) ==
    IF i < ProtocolSpec_first THEN Return(None)
    ELSE IF message_type \notin Incoming_registry(i)
    THEN Resolve(message_type, data, i - 1)
    ELSE Construct(i, message_type, data)

UnsupportedMessage == "TypeError: unsupported message received"

RECURSIVE from_json_items(_, _, _)

\* machinery.py:71-78: the inner loop returned r for item k; when it returned
\* nothing the outer loop goes on with the next item.
from_json_next(r, json_object, ver, k) ==
    IF r.raised = "" /\ r.value = None
    THEN from_json_items(json_object, ver, k + 1)
    ELSE r

\* from_json without the look-up in the catalog of the negotiated version.
from_json_items_unchecked(json_object, ver, k) ==
    IF k > Len(json_object) THEN Return(None)
    ELSE from_json_next(Resolve(json_object[k][1],
                                apply_to_keys(json_object[k][2], "snake_case"),
                                ver),
                        json_object, ver, k)

\* machinery.py:65-78: Incoming.from_json, over the items of json_object from
\* item k on. The first item whose name some version registers decides.
from_json_items(json_object, ver, k) ==
    IF k > Len(json_object) THEN Return(None)
    ELSE IF json_object[k][1] \notin Incoming_messages(ver)
    THEN Raise(UnsupportedMessage)
    ELSE from_json_next(Resolve(json_object[k][1],
                                apply_to_keys(json_object[k][2], "snake_case"),
                                ver),
                        json_object, ver, k)

from_json(json_object, ver) == from_json_items(json_object, ver, 1)

\* machinery.py:43-47: Decoder.decode. The list comprehension raises what the
\* first failing element raises and then yields no list.
Decoder_decode(frame, ver) ==
    Gather([j \in 1..Len(frame) |-> from_json(frame[j], ver)])

-----------------------------------------------------------------------------
(* client/client.py: the objects of a session.  An optional value is None  *)
(* or Some(x); a reference to a future is [fut |-> i] for futs[i], to a    *)
(* Device [dev |-> i] for devs[i].                                         *)

Some(x) == [some |-> x]

\* machinery.py:103-104.  MAX_UINT is 2^32 - 1 in the source; the model keeps
\* ids 3 bits wide, so that the generator's upper bound is a number TLC holds.
AutoIncrementId_lower_bound == 1
AutoIncrementId_upper_bound == 7

\* A generator that counts modulo upper_bound + 1.
AutoIncrementId_call_modular(p) ==
    IF p = None THEN AutoIncrementId_lower_bound
    ELSE (p.some + 1) % (AutoIncrementId_upper_bound + 1)

\* machinery.py:106-113: AutoIncrementId.__call__, the new _pointer.
AutoIncrementId_call(p) ==
    IF p = None \/ p = Some(AutoIncrementId_upper_bound)
    THEN AutoIncrementId_lower_bound
    ELSE p.some + 1

\* get_running_loop().create_future(): pending, without a result; site is
\* the line that created it.
Future(site) == [done |-> FALSE, result |-> None, site |-> site]

\* An attribute of a DeviceMessageAttributes instance: None when not given.
Attr(attributes, k) ==
    IF k \in DOMAIN attributes THEN Some(attributes[k]) ELSE None

\* messages.pop(name, []) (client.py:354-392).
PopOr(messages, name) == IF name \in DOMAIN messages THEN messages[name] ELSE <<>>

\* client.py:347-351, 354-384: one part per attributes of the list; type is
\* the actuator_type a ScalarActuator keeps (client.py:360, 813).
Parts(kind, attrs) ==
    [i \in 1..Len(attrs) |->
        [kind |-> kind, index |-> i - 1,
         description |-> Attr(attrs[i], "feature_descriptor"),
         type |-> Attr(attrs[i], "actuator_type")]]

\* client.py:387-396: the sensors of SensorReadCmd.
GenericSensors(attrs) ==
    [i \in 1..Len(attrs) |->
        [kind |-> "GenericSensor", index |-> i - 1,
         description |-> Attr(attrs[i], "feature_descriptor"),
         type |-> Attr(attrs[i], "sensor_type"),
         ranges |-> Attr(attrs[i], "sensor_range")]]

\* client.py:403-408, 1004-1014: the SubscribableSensor that takes the place
\* of sensor, its callback the no-op _no_callback (client.py:997-998).
SubscribableSensor_init(sensor) ==
    [kind |-> "SubscribableSensor", index |-> sensor.index,
     description |-> sensor.description, type |-> sensor.type,
     ranges |-> sensor.ranges, callback |-> "_no_callback"]

\* client.py:398-409: the first sensor that matches attributes becomes a
\* SubscribableSensor; none matching is only logged.
Subscribable(sensors, attributes) ==
    IF \E i \in 1..Len(sensors) :
          /\ sensors[i].description = Attr(attributes, "feature_descriptor")
          /\ sensors[i].type = Attr(attributes, "sensor_type")
    THEN [sensors EXCEPT ![CHOOSE i \in 1..Len(sensors) :
              /\ sensors[i].description = Attr(attributes, "feature_descriptor")
              /\ sensors[i].type = Attr(attributes, "sensor_type")
              /\ \A h \in 1..(i - 1) :
                    \/ sensors[h].description # Attr(attributes, "feature_descriptor")
                    \/ sensors[h].type # Attr(attributes, "sensor_type")]
                 = SubscribableSensor_init(@)]
    ELSE sensors

\* client.py:397-413: for attributes in messages.pop(SensorSubscribeCmd, []).
RECURSIVE Subscribables(_, _, _)
Subscribables(sensors, attrs, k) ==
    IF k > Len(attrs) THEN sensors
    ELSE Subscribables(Subscribable(sensors, attrs[k]), attrs, k + 1)

\* client.py:410-413: the else of the inner for, reached when no sensor
\* matched attributes: one error line that names the descriptor and type.
SubscribeLogged(sensors, attributes) ==
    IF \E i \in 1..Len(sensors) :
          /\ sensors[i].description = Attr(attributes, "feature_descriptor")
          /\ sensors[i].type = Attr(attributes, "sensor_type")
    THEN <<>>
    ELSE <<[level |-> "error", what |-> "subscribable sensor not defined",
            description |-> Attr(attributes, "feature_descriptor"),
            type |-> Attr(attributes, "sensor_type")]>>

\* client.py:397-413: the lines the loop over SensorSubscribeCmd logs, each
\* entry looked up in the sensors as the entries before it left them.
RECURSIVE SubscribablesLogged(_, _, _)
SubscribablesLogged(sensors, attrs, k) ==
    IF k > Len(attrs) THEN <<>>
    ELSE SubscribeLogged(sensors, attrs[k])
         \o SubscribablesLogged(Subscribable(sensors, attrs[k]), attrs, k + 1)

\* The names Device.__init__ pops from messages under version ver
\* (client.py:229-263, 269-335, 347-397).
PoppedNames(ver) ==
    CASE ver = 0 -> {"StopDeviceCmd", "SingleMotorVibrateCmd", "KiirooCmd",
                     "FleshlightLaunchFW12Cmd", "LovenseCmd",
                     "VorzeA10CycloneCmd"}
      [] ver \in {1, 2} -> {"StopDeviceCmd", "VibrateCmd", "LinearCmd",
                            "RotateCmd", "BatteryLevelCmd", "RSSILevelCmd"}
      [] ver = 3 -> {"StopDeviceCmd", "ScalarCmd", "LinearCmd", "RotateCmd",
                     "SensorReadCmd", "SensorSubscribeCmd"}

\* client.py:268-305: range(attributes.feature_count) parts; the v1
\* attributes (v1.py:46-48) have no step_count to read.
CountedParts(ver, kind, messages, name) ==
    IF name \notin DOMAIN messages THEN Return(<<>>)
    ELSE IF "feature_count" \notin DOMAIN messages[name] THEN Return(<<>>)
    ELSE IF messages[name].feature_count > 0 /\ ver = 1
    THEN Raise("AttributeError")
    ELSE Return([i \in 1..messages[name].feature_count |->
                    [kind |-> kind, index |-> i - 1, description |-> None]])

\* client.py:323-335: the v2 sensors.
LevelSensors(messages) ==
    (IF "BatteryLevelCmd" \in DOMAIN messages
     THEN <<[kind |-> "BatteryLevel", index |-> 0, description |-> None,
             type |-> None]>>
     ELSE <<>>)
    \o (IF "RSSILevelCmd" \in DOMAIN messages
        THEN <<[kind |-> "RSSILevel", index |-> 1, description |-> None,
                type |-> None]>>
        ELSE <<>>)

\* The Device under construction, unless a list of parts raised.  errors are
\* the lines client.py:411-413 logged, unknown the names left in messages
\* after the pops, each logged at debug level (client.py:423-424).
DeviceObject(ver, index, messages, actuators, linear, rotatory, sensors, errors) ==
    IF actuators.raised # "" THEN actuators
    ELSE IF linear.raised # "" THEN linear
    ELSE IF rotatory.raised # "" THEN rotatory
    ELSE Return([index |-> index,
                 removed |-> FALSE,
                 stop |-> "StopDeviceCmd" \in DOMAIN messages,
                 actuators |-> actuators.value,
                 linear_actuators |-> linear.value,
                 rotatory_actuators |-> rotatory.value,
                 sensors |-> sensors,
                 errors |-> errors,
                 unknown |-> DOMAIN messages \ PoppedNames(ver)])

\* client.py:226-263: the v0 actuators, in the order the code pops them.
RECURSIVE V0Actuators(_, _, _)
V0Actuators(messages, names, n) ==
    IF names = <<>> THEN <<>>
    ELSE IF Head(names)[1] \in DOMAIN messages
    THEN <<[kind |-> Head(names)[2], index |-> n, description |-> None]>>
         \o V0Actuators(messages, Tail(names), n + 1)
    ELSE V0Actuators(messages, Tail(names), n)

V0ActuatorNames ==
    <<<<"SingleMotorVibrateCmd", "SingleMotorVibrateActuator">>,
      <<"KiirooCmd", "KiirooActuator">>,
      <<"FleshlightLaunchFW12Cmd", "FleshlightLaunchFW12Actuator">>,
      <<"LovenseCmd", "LovenseActuator">>,
      <<"VorzeA10CycloneCmd", "VorzeA10CycloneActuator">>>>

\* client.py:199-424: Device.__init__ for a client of version ver.  Under v0
\* device_messages is a list, and list.pop takes no name (client.py:229):
\* TypeError; a dict in its place is popped by key.
Device_init(ver, index, messages) ==
    IF ver = 0
    THEN IF IsList(messages) THEN Raise("TypeError")
         ELSE DeviceObject(ver, index, messages.dict,
                 Return(V0Actuators(messages.dict, V0ActuatorNames, 0)),
                 Return(<<>>), Return(<<>>), <<>>, <<>>)
    ELSE IF ver \in {1, 2}
    THEN DeviceObject(ver, index, messages,
            CountedParts(ver, "VibrateActuator", messages, "VibrateCmd"),
            CountedParts(ver, "LinearActuator", messages, "LinearCmd"),
            CountedParts(ver, "RotatoryActuator", messages, "RotateCmd"),
            LevelSensors(messages), <<>>)
    ELSE DeviceObject(ver, index, messages,
            Return(Parts("ScalarActuator", PopOr(messages, "ScalarCmd"))),
            Return(Parts("LinearActuator", PopOr(messages, "LinearCmd"))),
            Return(Parts("RotatoryActuator", PopOr(messages, "RotateCmd"))),
            Subscribables(GenericSensors(PopOr(messages, "SensorReadCmd")),
                          PopOr(messages, "SensorSubscribeCmd"), 1),
            SubscribablesLogged(GenericSensors(PopOr(messages, "SensorReadCmd")),
                                PopOr(messages, "SensorSubscribeCmd"), 1))

-----------------------------------------------------------------------------
(* Client._handle_message (client.py:102-158) as a function of the client  *)
(* state st: the fields of the Client the handler reads and writes, the    *)
(* lines it logged (out), the sensor callbacks it invoked (called) and the *)
(* exception that ended it (raised).                                       *)

\* self._logger.<level>(...): what names the message, arg its number.
Logged(st, level, what, arg) ==
    [st EXCEPT !.out = Append(@, [level |-> level, what |-> what, arg |-> arg])]

Raised(st, e) == [st EXCEPT !.raised = e]

\* Future.set_result: InvalidStateError on a future that is done.
Future_set_result(st, f, value) ==
    IF st.futs[f.fut].done THEN Raised(st, "InvalidStateError")
    ELSE [st EXCEPT !.futs[f.fut].done = TRUE, !.futs[f.fut].result = value]

\* d[key] = value and del d[key] on a dict modelled as a function.
DictSet(d, key, value) ==
    [k \in DOMAIN d \cup {key} |-> IF k = key THEN value ELSE d[k]]
DictDel(d, key) == [k \in DOMAIN d \ {key} |-> d[k]]

\* A registry keyed by the number of devices built, not by the index.
StoreDevice_counted(st, index, device) ==
    IF device.raised # "" THEN Raised(st, device.raised)
    ELSE [Logged(st, "debug", "Device added", index)
            EXCEPT !.devs = Append(@, device.value),
                   !.devices = DictSet(@, Len(st.devs), [dev |-> Len(st.devs) + 1])]

\* client.py:69-70, with the Device that Device.__init__ built or raised.
StoreDevice(st, index, device) ==
    IF device.raised # "" THEN Raised(st, device.raised)
    ELSE [Logged(st, "debug", "Device added", index)
            EXCEPT !.devs = Append(@, device.value),
                   !.devices = DictSet(@, index, [dev |-> Len(st.devs) + 1])]

\* client.py:60-70: Client._create_device(device), device the fields of a
\* DeviceAdded or of a Device of a DeviceList.
Client_create_device(st, ver, device) ==
    StoreDevice(st, device.device_index,
                Device_init(ver, device.device_index, device.device_messages))

\* A handler that leaves the fulfilled future in self._scanning.
ClearScanning_kept(st) == st

\* client.py:114, not reached when set_result raised.
ClearScanning(st) ==
    IF st.raised # "" THEN st ELSE [st EXCEPT !.scanning = None]

\* client.py:110-114; the result is the registry itself, not a copy.
HandleScanningFinished(st) ==
    IF st.scanning # None
    THEN ClearScanning(Future_set_result(st, st.scanning, [registry |-> TRUE]))
    ELSE st

\* client.py:119-123; self._devices[k] raises KeyError for an unknown k.
HandleDeviceRemoved(st, k) ==
    IF k \notin DOMAIN st.devices THEN Raised(st, "KeyError")
    ELSE [Logged(st, "debug", "Device removed", k)
            EXCEPT !.devs[st.devices[k].dev].removed = TRUE,
                   !.devices = DictDel(@, k)]

\* t[i] on a tuple: a negative i counts from the end; 0 when out of range.
TupleIndex(t, i) ==
    IF 0 <= i /\ i < Len(t) THEN i + 1
    ELSE IF i < 0 /\ -i <= Len(t) THEN Len(t) + i + 1
    ELSE 0

\* client.py:131-145, sensors the tuple device.sensors.
DispatchReading(st, sensors, message) ==
    IF TupleIndex(sensors, message.fields.sensor_index) = 0
    THEN Logged(st, "error", "received data from an unknown sensor",
                message.fields.sensor_index)
    ELSE IF sensors[TupleIndex(sensors, message.fields.sensor_index)].kind
               # "SubscribableSensor"
    THEN Logged(st, "error", "received data from a sensor which is not subscribable",
                message.fields.sensor_index)
    ELSE [st EXCEPT !.called = Append(@,
             [callback |-> sensors[TupleIndex(sensors,
                              message.fields.sensor_index)].callback,
              data |-> message.fields.data])]

\* client.py:125-145
HandleSensorReading(st, message) ==
    IF message.fields.device_index \notin DOMAIN st.devices
    THEN Logged(st, "error", "received data from an unknown device",
                message.fields.device_index)
    ELSE DispatchReading(st,
            st.devs[st.devices[message.fields.device_index].dev].sensors,
            message)

\* client.py:105-151: a server initiated message, id 0.
HandleServerInitiated(st, ver, message) ==
    IF message.cls = Class(0, "Error")
    THEN Logged(st, "error", "Unmatched error message received", 0)
    ELSE IF message.cls = Class(0, "ScanningFinished")
    THEN HandleScanningFinished(Logged(st, "debug", "Scanning finished.", 0))
    ELSE IF message.cls \in {Class(i, "DeviceAdded") : i \in ProtocolSpec}
    THEN Client_create_device(st, ver, message.fields)
    ELSE IF message.cls = Class(0, "DeviceRemoved")
    THEN HandleDeviceRemoved(st, message.fields.device_index)
    ELSE IF message.cls = Class(3, "SensorReading")
    THEN HandleSensorReading(st, message)
    ELSE IF message.cls = Class(2, "RawReading")
    THEN st
    ELSE Logged(st, "error", "Unexpected message received", 0)

\* The entry is kept when set_result raised before the del.
AfterSetResult(st, id) ==
    IF st.raised # "" THEN st ELSE [st EXCEPT !.tasks = DictDel(@, id)]

\* A handler that fulfils the pending entry and leaves it in the table.
RouteResponse_kept(st, message) ==
    IF message.fields.id \in DOMAIN st.tasks
    THEN Future_set_result(st, st.tasks[message.fields.id], message)
    ELSE Logged(st, "error", "Message with unexpected Id received",
                message.fields.id)

\* A handler that fulfils the oldest pending entry, whatever the id.
RouteResponse_oldest(st, message) ==
    IF DOMAIN st.tasks # {}
    THEN AfterSetResult(
            Future_set_result(st,
                st.tasks[CHOOSE i \in DOMAIN st.tasks :
                            \A j \in DOMAIN st.tasks : i <= j], message),
            CHOOSE i \in DOMAIN st.tasks : \A j \in DOMAIN st.tasks : i <= j)
    ELSE Logged(st, "error", "Message with unexpected Id received",
                message.fields.id)

\* client.py:153-158: a response to a client initiated message.
RouteResponse(st, message) ==
    IF message.fields.id \in DOMAIN st.tasks
    THEN AfterSetResult(
            Future_set_result(st, st.tasks[message.fields.id], message),
            message.fields.id)
    ELSE Logged(st, "error", "Message with unexpected Id received",
                message.fields.id)

\* client.py:104-158: the body of the loop; message.id of None raises.
HandleOne(st, ver, message) ==
    IF message = None THEN Raised(st, "AttributeError")
    ELSE IF message.fields.id = 0 THEN HandleServerInitiated(st, ver, message)
    ELSE RouteResponse(st, message)

\* A loop that takes the decoded messages from the last to the first.
RECURSIVE HandleAll_reversed(_, _, _, _)
HandleAll_reversed(st, ver, messages, k) ==
    IF k > Len(messages) \/ st.raised # "" THEN st
    ELSE HandleAll_reversed(HandleOne(st, ver, messages[Len(messages) + 1 - k]),
                            ver, messages, k + 1)

\* client.py:103-158: the loop over the decoded messages, from the k-th on;
\* an exception ends it.
RECURSIVE HandleAll(_, _, _, _)
HandleAll(st, ver, messages, k) ==
    IF k > Len(messages) \/ st.raised # "" THEN st
    ELSE HandleAll(HandleOne(st, ver, messages[k]), ver, messages, k + 1)

\* client.py:102-158: Client._handle_message, decoded what
\* self._decoder.decode(message) made of the frame: when the decoder raises
\* the loop does not start.  The handler never awaits, so it runs to its end
\* in one step of the event loop.
Client_handle_message(st, ver, decoded) ==
    IF decoded.raised # "" THEN Raised(st, decoded.raised)
    ELSE HandleAll(st, ver, decoded.value, 1)

-----------------------------------------------------------------------------
(* SpecCodec: Encoder.encode and Decoder.decode applied to drawn inputs.   *)

\* The ids drawn for the message values of SpecCodec are 1..MaxCodecId.
MaxCodecId == 2

\* An Outgoing instance of class (i, name) as its constructor builds it; alt
\* varies the arguments.
OutgoingValue(i, name, id, alt) ==
    LET arg(k) ==
          CASE k = "id" -> id
            [] k \in {"device_index", "sensor_index", "position", "speed",
                      "expected_length"} -> alt
            [] k = "message_version" -> ProtocolSpec_last - alt
            [] k \in {"client_name", "command", "endpoint"} ->
                  IF alt = 0 THEN "Test Client" ELSE "other"
            [] k = "sensor_type" -> IF alt = 0 THEN "Pressure" ELSE "Battery"
            [] k \in {"clockwise", "write_with_response", "wait_for_data"} ->
                  alt = 1
            [] k = "data" -> <<alt>>
            [] k = "speeds" -> <<[index |-> 0, speed |-> alt]>>
            [] k = "vectors" ->
                  <<[index |-> 0, duration |-> 500, position |-> alt]>>
            [] k = "rotations" ->
                  <<[index |-> 0, speed |-> alt, clockwise |-> alt = 1]>>
            [] k = "scalars" ->
                  <<[index |-> 0, scalar |-> alt, actuator_type |-> "Vibrate"],
                    [index |-> 1, scalar |-> 1, actuator_type |-> "Inflate"]>>
    IN  Message(i, name, [k \in OutgoingFields(i, name) |-> arg(k)])

\* The Outgoing class that module vV exports under each of its names: the
\* latest definition at or below V of a name V has not deleted.
OutgoingOf(V) ==
    UNION {{Class(i, name) :
              name \in {n \in OutgoingClasses(i) \cap Incoming_messages(V) :
                          \A j \in (i + 1)..V : n \notin OutgoingClasses(j)}} :
           i \in 0..V}

\* The payload a server sends for the Incoming class (i, name), as on the wire.
WirePayload(i, name) ==
    CASE name \in {"Ok"} -> [Id |-> 1]
      [] name = "ScanningFinished" -> [Id |-> 0]
      [] name = "Error" ->
            [Id |-> 0, ErrorMessage |-> "Server received invalid JSON.",
             ErrorCode |-> 3]
      [] name = "ServerInfo" /\ i = 0 ->
            [Id |-> 1, ServerName |-> "Test Server", MajorVersion |-> 1,
             MinorVersion |-> 0, BuildVersion |-> 0, MessageVersion |-> 0,
             MaxPingTime |-> 100]
      [] name = "ServerInfo" /\ i = 2 ->
            [Id |-> 1, ServerName |-> "Test Server", MessageVersion |-> 2,
             MaxPingTime |-> 100]
      [] name = "DeviceRemoved" -> [Id |-> 0, DeviceIndex |-> 0]
      [] name = "DeviceAdded" /\ i = 0 ->
            [Id |-> 0, DeviceName |-> "TestDevice 1", DeviceIndex |-> 0,
             DeviceMessages |-> JList(<<"SingleMotorVibrateCmd", "StopDeviceCmd">>)]
      [] name = "DeviceAdded" /\ i = 1 ->
            [Id |-> 0, DeviceName |-> "TestDevice 1", DeviceIndex |-> 0,
             DeviceMessages |-> JDict([VibrateCmd |-> JDict([FeatureCount |-> 2]),
                                       StopDeviceCmd |-> JDict(<<>>)])]
      [] name = "DeviceAdded" /\ i = 2 ->
            [Id |-> 0, DeviceName |-> "TestDevice 1", DeviceIndex |-> 0,
             DeviceMessages |->
                 JDict([VibrateCmd |-> JDict([FeatureCount |-> 2,
                                              StepCount |-> <<20, 20>>]),
                        StopDeviceCmd |-> JDict(<<>>)])]
      [] name = "DeviceAdded" /\ i = 3 ->
            [Id |-> 0, DeviceName |-> "TestDevice 1", DeviceIndex |-> 0,
             DeviceMessageTimingGap |-> 100,
             DeviceMessages |->
                 JDict([ScalarCmd |->
                            JList(<<JDict([StepCount |-> 20,
                                           FeatureDescriptor |-> "Clitoral Stimulator",
                                           ActuatorType |-> "Vibrate"])>>),
                        StopDeviceCmd |-> JList(<<>>)])]
      [] name = "DeviceList" /\ i = 0 ->
            [Id |-> 1, Devices |->
                <<[DeviceName |-> "TestDevice 1", DeviceIndex |-> 0,
                   DeviceMessages |-> JList(<<"SingleMotorVibrateCmd">>)]>>]
      [] name = "DeviceList" /\ i \in {1, 2} ->
            [Id |-> 1, Devices |->
                <<[DeviceName |-> "TestDevice 1", DeviceIndex |-> 0,
                   DeviceMessages |->
                       JDict([VibrateCmd |-> JDict([FeatureCount |-> i])])]>>]
      [] name = "DeviceList" /\ i = 3 ->
            [Id |-> 1, Devices |->
                <<[DeviceName |-> "TestDevice 1", DeviceIndex |-> 0,
                   DeviceMessages |->
                       JDict([LinearCmd |->
                                JList(<<JDict([StepCount |-> 100,
                                               FeatureDescriptor |-> "Stroker"])>>)])]>>]
      [] name = "BatteryLevelReading" ->
            [Id |-> 1, DeviceIndex |-> 0, BatteryLevel |-> 1]
      [] name = "RSSILevelReading" ->
            [Id |-> 1, DeviceIndex |-> 0, RSSILevel |-> -40]
      [] name = "RawReading" ->
            [Id |-> 1, DeviceIndex |-> 0, Endpoint |-> "rx", Data |-> <<0, 1, 0>>]
      [] name = "SensorReading" ->
            [Id |-> 0, DeviceIndex |-> 0, SensorIndex |-> 0,
             SensorType |-> "Pressure", Data |-> <<591>>]

\* A JSON object with the single key name.
WireObject(name, payload) == << <<name, payload>> >>

\* A set of strings as a sequence, to enumerate values that TLC cannot
\* collect in one set (payloads of different shapes).
RECURSIVE SetToSeq(_)
SetToSeq(S) ==
    IF S = {} THEN <<>>
    ELSE LET x == CHOOSE y \in S : TRUE IN <<x>> \o SetToSeq(S \ {x})

RECURSIVE Flatten(_)
Flatten(ss) == IF ss = <<>> THEN <<>> ELSE Head(ss) \o Flatten(Tail(ss))

\* One object per Incoming class, then the objects of two Outgoing names.
WireObjects ==
    Flatten([i \in 1..4 |->
        LET names == SetToSeq(Incoming_registry(i - 1))
        IN  [k \in 1..Len(names) |->
                WireObject(names[k], WirePayload(i - 1, names[k]))]])
    \o <<Encoder_default(OutgoingValue(0, "StopAllDevices", 1, 0)),
         Encoder_default(OutgoingValue(0, "Ping", 1, 0))>>

\* The Outgoing values drawn: every class, with two argument lists.
OutgoingValues(id) ==
    Flatten([i \in 1..4 |->
        LET names == SetToSeq(OutgoingClasses(i - 1))
        IN  [k \in 1..(2 * Len(names)) |->
                OutgoingValue(i - 1, names[(k + 1) \div 2], id, k % 2)]])

\* The session and connector variables are not used by SpecCodec and SpecWs.
SessionIdle ==
    /\ v = ProtocolSpec_last
    /\ tasks = <<>>
    /\ futs = <<>>
    /\ scanning = None
    /\ devices = <<>>
    /\ devs = <<>>
    /\ pointer = None
    /\ sent = <<>>
    /\ log = None
    /\ calls = <<>>
    /\ snaps = <<>>

CodecIdle ==
    /\ cin = None
    /\ cout = None

WsIdle == ws = None

InitCodec ==
    /\ SessionIdle
    /\ WsIdle
    /\ \E V \in ProtocolSpec :
          \* an Outgoing value to encode and decode again
          \/ \E id \in 1..MaxCodecId : \E k \in 1..Len(OutgoingValues(id)) :
                cin = [msg |-> OutgoingValues(id)[k], frame |-> <<>>, ver |-> V]
          \* a frame of one or two objects to decode
          \/ \E a \in 1..Len(WireObjects) : \E b \in 0..Len(WireObjects) :
                cin = [msg |-> None, ver |-> V,
                       frame |-> IF b = 0 THEN <<WireObjects[a]>>
                                 ELSE <<WireObjects[a], WireObjects[b]>>]
    /\ cout = [stage |-> "input", frame |-> cin.frame, result |-> None]

\* encoder.encode([message]), as Client.send calls it (client.py:55).
Encode ==
    /\ cin.msg # None
    /\ cout.stage = "input"
    /\ cout' = [cout EXCEPT !.stage = "encoded",
                            !.frame = Encoder_encode(<<cin.msg>>)]
    /\ UNCHANGED <<sessionVars, cin, ws>>

\* decoder.decode(frame) with a Decoder for cin.ver (client.py:103), of the
\* frame drawn or of the frame Encode produced.
Decode ==
    /\ \/ cout.stage = "encoded"
       \/ cout.stage = "input" /\ cin.msg = None
    /\ cout' = [cout EXCEPT !.stage = "decoded",
                            !.result = Decoder_decode(cout.frame, cin.ver)]
    /\ UNCHANGED <<sessionVars, cin, ws>>

NextCodec == Encode \/ Decode

SpecCodec == InitCodec /\ [][NextCodec]_vars

-----------------------------------------------------------------------------
(* Spec: a connected session.  Callers run Client.send, start_scanning and *)
(* stop_scanning as coroutines, each up to its next await in one step; the *)
(* transport hands the frames of the server to Client._handle_message.     *)

\* The coroutines that run side by side.
NumCallers == 2
\* The messages constructed in one run (each takes an id from the generator).
MaxMessages == 2
\* The frames the server sends in one run, and the objects in one frame.
MaxFrames == 2
\* The device indexes the server uses are 0..MaxDeviceIndex.
MaxDeviceIndex == 0
\* The snapshots of Client.devices kept.
MaxSnaps == 1

Callers == 1..NumCallers

\* A coroutine that has not been called.
IdleCall ==
    [op |-> "", pc |-> "idle", id |-> 0, future |-> None, local |-> None,
     entry |-> None, ret |-> None, raised |-> "", resumes |-> 0]

\* The Client fields the handler works on.
ClientState ==
    [tasks |-> tasks, futs |-> futs, scanning |-> scanning,
     devices |-> devices, devs |-> devs, out |-> <<>>, called |-> <<>>,
     raised |-> ""]

\* What the server may send to a v3 client: responses to the ids in use, an
\* error without id, and the events of scanning and of the device list.
ServerObjects ==
    [i \in 1..MaxMessages |-> WireObject("Ok", [Id |-> i])]
    \o <<WireObject("Error", [Id |-> 1, ErrorMessage |-> "Device not found.",
                              ErrorCode |-> 4]),
         WireObject("Error", [Id |-> 0, ErrorMessage |-> "Server received invalid JSON.",
                              ErrorCode |-> 3]),
         WireObject("ScanningFinished", [Id |-> 0])>>
    \o [k \in 1..(MaxDeviceIndex + 1) |->
          WireObject("DeviceAdded",
             [WirePayload(3, "DeviceAdded") EXCEPT !.DeviceIndex = k - 1])]
    \o [k \in 1..(MaxDeviceIndex + 1) |->
          WireObject("DeviceRemoved", [Id |-> 0, DeviceIndex |-> k - 1])]

Init ==
    /\ v = ProtocolSpec_last
    /\ tasks = <<>>
    /\ futs = <<>>
    /\ scanning = None
    /\ devices = <<>>
    /\ devs = <<>>
    /\ pointer = None
    /\ sent = <<>>
    /\ log = [n |-> 0, frame |-> <<>>, out |-> <<>>, called |-> <<>>,
              raised |-> ""]
    /\ calls = [c \in Callers |-> IdleCall]
    /\ snaps = <<>>
    /\ CodecIdle
    /\ WsIdle

\* The generator can make another message within the bound of the run.
CanConstruct == IF pointer = None THEN TRUE ELSE pointer.some < MaxMessages

\* An Outgoing of class (0, name) without fields of its own, constructed
\* with the id the generator returns (machinery.py:127).
NewMessage(name) == Message(0, name, [id |-> AutoIncrementId_call(pointer)])

\* client.py:52-56 for a message just constructed: the future is created
\* and filed under the id of the message, the encoded frame is handed to the
\* connector, the coroutine awaits.  before are the futures that exist when
\* send is entered.
Client_send(c, op, message, before, local) ==
    /\ pointer' = Some(message.fields.id)
    /\ futs' = Append(before, Future("send"))
    /\ tasks' = DictSet(tasks, message.fields.id, [fut |-> Len(before) + 1])
    /\ sent' = Append(sent, Encoder_encode(<<message>>))
    /\ calls' = [calls EXCEPT ![c] =
                   [IdleCall EXCEPT !.op = op, !.pc = "await",
                                    !.id = message.fields.id,
                                    !.future = [fut |-> Len(before) + 1],
                                    !.local = local,
                                    !.entry = [scanning |-> scanning]]]

\* raise cls(*args), and raise cls, that calls cls without arguments: the
\* exception that propagates.  Every __init__ of errors/client.py takes one
\* argument besides self (ClientError.__init__(self, message) for the
\* classes that define none); a call with another number of arguments is a
\* TypeError.
RaiseOf(cls, args) == IF Len(args) = 1 THEN cls ELSE "TypeError"

\* A coroutine that returns without awaiting.
ReturnAtOnce(c, op, ret, raised) ==
    /\ calls' = [calls EXCEPT ![c] =
                   [IdleCall EXCEPT !.op = op, !.pc = "done", !.ret = ret,
                                    !.raised = raised,
                                    !.entry = [scanning |-> scanning]]]
    /\ UNCHANGED <<pointer, futs, tasks, sent>>

\* client.py:52-56: a caller of Client.send with a new StopAllDevices.
Send(c) ==
    /\ calls[c].pc = "idle"
    /\ CanConstruct
    /\ Client_send(c, "send", NewMessage("StopAllDevices"), futs, None)
    /\ UNCHANGED <<v, scanning, devices, devs, log, snaps, codecVars, ws>>

\* A start_scanning that sends whether or not a scan is pending.
StartScanning_always(c) ==
    /\ calls[c].pc = "idle"
    /\ CanConstruct
    /\ scanning' = [fut |-> Len(futs) + 1]
    /\ Client_send(c, "start_scanning", NewMessage("StartScanning"),
                   Append(futs, Future("start_scanning")),
                   [fut |-> Len(futs) + 1])
    /\ UNCHANGED <<v, devices, devs, log, snaps, codecVars, ws>>

\* client.py:176-180: start_scanning up to its await, or to its return when
\* a scan future exists.
StartScanning(c) ==
    /\ calls[c].pc = "idle"
    /\ \/ /\ scanning = None
          /\ CanConstruct
          /\ scanning' = [fut |-> Len(futs) + 1]
          /\ Client_send(c, "start_scanning", NewMessage("StartScanning"),
                         Append(futs, Future("start_scanning")),
                   [fut |-> Len(futs) + 1])
       \/ /\ scanning # None
          /\ ReturnAtOnce(c, "start_scanning", scanning, "")
          /\ UNCHANGED scanning
    /\ UNCHANGED <<v, devices, devs, log, snaps, codecVars, ws>>

\* client.py:184-189: stop_scanning up to its await, or to its raise.
StopScanning(c) ==
    /\ calls[c].pc = "idle"
    /\ \/ /\ scanning = None
          /\ ReturnAtOnce(c, "stop_scanning", None,
                          RaiseOf("ScanNotRunningError", <<>>))
       \/ /\ scanning # None
          /\ CanConstruct
          /\ Client_send(c, "stop_scanning", NewMessage("StopScanning"),
                         futs, scanning)
    /\ UNCHANGED <<v, scanning, devices, devs, log, snaps, codecVars, ws>>

\* A stop_scanning that reads self._scanning again after the await.
stop_scanning_return_current(call, result) == scanning

\* client.py:191: return future.
stop_scanning_return(call, result) == call.local

\* client.py:182: return self._scanning.
start_scanning_return(call, result) == scanning

\* client.py:58: return future.result().
send_return(call, result) == result

\* client.py:56-58, 182, 191: the future of send is done, the coroutine goes
\* on to its return.
Resume(c) ==
    /\ calls[c].pc = "await"
    /\ futs[calls[c].future.fut].done
    /\ calls' = [calls EXCEPT
          ![c].pc = "done",
          ![c].resumes = @ + 1,
          ![c].ret =
              CASE calls[c].op = "send" ->
                      send_return(calls[c], futs[calls[c].future.fut].result)
                [] calls[c].op = "start_scanning" ->
                      start_scanning_return(calls[c], futs[calls[c].future.fut].result)
                [] calls[c].op = "stop_scanning" ->
                      stop_scanning_return(calls[c], futs[calls[c].future.fut].result)]
    /\ UNCHANGED <<v, tasks, futs, scanning, devices, devs, pointer, sent, log,
                   snaps, codecVars, ws>>

\* The caller drops what the coroutine returned and may call again.
Forget(c) ==
    /\ calls[c].pc = "done"
    /\ calls' = [calls EXCEPT ![c] = IdleCall]
    /\ UNCHANGED <<v, tasks, futs, scanning, devices, devs, pointer, sent, log,
                   snaps, codecVars, ws>>

\* client.py:48-50: Client.devices, a copy of the registry.
Devices ==
    /\ Len(snaps) < MaxSnaps
    /\ snaps' = Append(snaps, devices)
    /\ UNCHANGED <<v, tasks, futs, scanning, devices, devs, pointer, sent, log,
                   calls, codecVars, ws>>

\* The Client after the handler ran on frame and ended in st.
Handled(st, frame) ==
    /\ tasks' = st.tasks
    /\ futs' = st.futs
    /\ scanning' = st.scanning
    /\ devices' = st.devices
    /\ devs' = st.devs
    /\ log' = [n |-> log.n + 1, frame |-> frame, out |-> st.out,
               called |-> st.called, raised |-> st.raised]

\* The frames of the server: one object, or two.
ServerFrames ==
    [a \in 1..Len(ServerObjects) |-> <<ServerObjects[a]>>]
    \o Flatten([a \in 1..Len(ServerObjects) |->
                  [b \in 1..Len(ServerObjects) |->
                      <<ServerObjects[a], ServerObjects[b]>>]])

\* client.py:103: self._decoder.decode(message) for each frame of the server
\* and each version a Decoder is made for (client.py:16).
ServerDecoded ==
    [ver \in ProtocolSpec |->
        [f \in 1..Len(ServerFrames) |-> Decoder_decode(ServerFrames[f], ver)]]

\* client.py:102-158: the transport calls Client._handle_message with a frame.
HandleFrame ==
    /\ log.n < MaxFrames
    /\ \E f \in 1..Len(ServerFrames) :
          Handled(Client_handle_message(ClientState, v, ServerDecoded[v][f]),
                  ServerFrames[f])
    /\ UNCHANGED <<v, pointer, sent, calls, snaps, codecVars, ws>>

Next ==
    \/ \E c \in Callers : Send(c)
    \/ \E c \in Callers : StartScanning(c)
    \/ \E c \in Callers : StopScanning(c)
    \/ \E c \in Callers : Resume(c)
    \/ \E c \in Callers : Forget(c)
    \/ Devices
    \/ HandleFrame

Spec == Init /\ [][Next]_vars

-----------------------------------------------------------------------------
(* SpecWs: Client._connect over a WebsocketConnector.  ws is the connector *)
(* (abstract.py, websocket.py) with its EventManager, the socket and the   *)
(* server behind it.  The handshake is the coroutine of caller 1.          *)

\* The frames the server sends without being asked.
MaxPushed == 1

\* abstract.py:9-29 and websocket.py:12-33: the connector after __init__, its
\* listeners in the order they were registered; callback is the slot that
\* Client._connect assigns (client.py:84).
WebsocketConnector_init ==
    [connected |-> FALSE,
     connection |-> "none",
     callback |-> None,
     events |-> [connect |-> <<"set_connect_property", "log_connection">>,
                 disconnect |-> <<"unset_connect_property", "log_disconnection">>,
                 send |-> <<"log_message_sent">>,
                 receive |-> <<"log_message_received">>],
     loop |-> "none",
     inbox |-> <<>>,
     wire |-> <<>>,
     answered |-> 0,
     pushed |-> 0,
     received |-> <<>>,
     out |-> <<>>]

\* connector._logger.<level>(...)
ConnectorLogged(w, level, what) ==
    [w EXCEPT !.out = Append(@, [level |-> level, what |-> what])]

\* abstract.py:17-27, websocket.py:19-33: the listeners.  stop tells that the
\* listener raised StopCallbackChain.  The last three are the listeners of
\* SpecEvents, that record their invocation; stop_chain then raises
\* StopCallbackChain.
Listener(name, w) ==
    CASE name = "set_connect_property" ->
            IF w.connected THEN [w |-> w, stop |-> TRUE]
            ELSE [w |-> [w EXCEPT !.connected = TRUE], stop |-> FALSE]
      [] name = "unset_connect_property" ->
            IF ~w.connected THEN [w |-> w, stop |-> TRUE]
            ELSE [w |-> [w EXCEPT !.connected = FALSE], stop |-> FALSE]
      [] name = "log_connection" ->
            [w |-> ConnectorLogged(w, "info", "Connected"), stop |-> FALSE]
      [] name = "log_disconnection" ->
            [w |-> ConnectorLogged(w, "info", "Disconnected"), stop |-> FALSE]
      [] name = "log_message_sent" ->
            [w |-> ConnectorLogged(w, "debug", "Message sent"), stop |-> FALSE]
      [] name = "log_message_received" ->
            [w |-> ConnectorLogged(w, "debug", "Message received"), stop |-> FALSE]
      [] name \in {"listener_a", "listener_b"} ->
            [w |-> [w EXCEPT !.invoked = Append(@, name)], stop |-> FALSE]
      [] name = "stop_chain" ->
            [w |-> [w EXCEPT !.invoked = Append(@, name)], stop |-> TRUE]

RECURSIVE Event_call(_, _, _)

\* A chain that goes on after a StopCallbackChain.
Event_next_through(r, callbacks, k) == Event_call(r.w, callbacks, k + 1)

\* event.py:17-20: the chain ends at a StopCallbackChain.
Event_next(r, callbacks, k) ==
    IF r.stop THEN r.w ELSE Event_call(r.w, callbacks, k + 1)

\* event.py:14-20: Event.__call__, from the k-th callback on.
Event_call(w, callbacks, k) ==
    IF k > Len(callbacks) THEN w
    ELSE Event_next(Listener(callbacks[k], w), callbacks, k)

\* manager.py:40-47: EventManager.emit(event, ..., strict=strict).
EventManager_emit_strict(w, event, strict) ==
    IF event \notin DOMAIN w.events
    THEN IF strict THEN [w EXCEPT !.raised = "NonexistentEvent"] ELSE w
    ELSE Event_call(w, w.events[event], 1)

\* manager.py:40: emit(event, connector, ...), strict left at its default.
EventManager_emit(w, event) == EventManager_emit_strict(w, event, TRUE)

\* A send that does not look at the flag.
WebsocketConnector_send_unguarded(w, frame) ==
    EventManager_emit([w EXCEPT !.wire = Append(@, frame)], "send")

\* websocket.py:85-97: WebsocketConnector.send.  The error it logs it
\* raises: DisconnectedError when the flag is unset, ConnectorError when the
\* send on the connection fails, as it does on a closed connection.
WebsocketConnector_send(w, frame) ==
    IF w.connected
    THEN IF w.connection = "open"
         THEN EventManager_emit([w EXCEPT !.wire = Append(@, frame)], "send")
         ELSE ConnectorLogged(w, "error", "ConnectorError")
    ELSE ConnectorLogged(w, "error", "DisconnectedError")

\* client.py:87-90: the first message of the handshake.
RequestServerInfo(ver) ==
    IF ver = 0
    THEN Message(0, "RequestServerInfo",
                 [id |-> AutoIncrementId_call(pointer),
                  client_name |-> "Test Client"])
    ELSE Message(1, "RequestServerInfo",
                 [id |-> AutoIncrementId_call(pointer),
                  client_name |-> "Test Client", message_version |-> ver])

\* What a server answers to the request in frame.
ServerAnswer(frame) ==
    IF frame[1][1][1] = "RequestServerInfo"
    THEN <<WireObject("ServerInfo",
              [WirePayload(IF "MessageVersion" \in DOMAIN frame[1][1][2] /\ v >= 2
                           THEN 2 ELSE 0, "ServerInfo")
                 EXCEPT !.Id = frame[1][1][2].Id])>>
    ELSE <<WireObject("Ok", [Id |-> frame[1][1][2].Id])>>

InitWs ==
    /\ v \in ProtocolSpec
    /\ tasks = <<>>
    /\ futs = <<>>
    /\ scanning = None
    /\ devices = <<>>
    /\ devs = <<>>
    /\ pointer = None
    /\ sent = <<>>
    /\ log = [n |-> 0, frame |-> <<>>, out |-> <<>>, called |-> <<>>,
              raised |-> ""]
    /\ calls = [c \in Callers |-> IdleCall]
    /\ snaps = <<>>
    /\ CodecIdle
    /\ ws = WebsocketConnector_init

\* client.py:83-85 up to the await in websocket.py:37.
WsConnect ==
    /\ calls[1].pc = "idle"
    /\ ws.connection = "none"
    /\ ws' = [ws EXCEPT !.callback = [method |-> "Client._handle_message"]]
    /\ calls' = [calls EXCEPT ![1] =
                   [IdleCall EXCEPT !.op = "connect", !.pc = "connecting"]]
    /\ UNCHANGED <<v, tasks, futs, scanning, devices, devs, pointer, sent, log,
                   snaps, codecVars>>

\* websocket.py:37, 59-61 and client.py:87-91: the connection is made, the
\* connector emits 'connect' and starts its receive loop, and _connect goes
\* on to send RequestServerInfo and to await the response.
WsConnected ==
    /\ calls[1].pc = "connecting"
    /\ Client_send(1, "connect", RequestServerInfo(v), futs, None)
    /\ ws' = WebsocketConnector_send(
                EventManager_emit([ws EXCEPT !.connection = "open",
                                             !.loop = "running"], "connect"),
                Encoder_encode(<<RequestServerInfo(v)>>))
    /\ UNCHANGED <<v, scanning, devices, devs, log, snaps, codecVars>>

\* websocket.py:38-57: the connection is not made; the error is logged and
\* raised to the caller of connect.
WsConnectFailed ==
    /\ calls[1].pc = "connecting"
    /\ \E e \in {"InvalidAddressError", "ServerNotFoundError",
                 "InvalidHandshakeError", "WebsocketTimeoutError",
                 "ConnectorError"} :
          /\ ws' = ConnectorLogged(ws, "error", e)
          /\ calls' = [calls EXCEPT ![1].pc = "done", ![1].raised = e]
    /\ UNCHANGED <<v, tasks, futs, scanning, devices, devs, pointer, sent, log,
                   snaps, codecVars>>

\* The server answers the oldest request it has not answered.
ServerReply ==
    /\ ws.connection = "open"
    /\ ws.answered < Len(ws.wire)
    /\ ws' = [ws EXCEPT !.answered = @ + 1,
                        !.inbox = Append(@, ServerAnswer(ws.wire[ws.answered + 1]))]
    /\ UNCHANGED <<sessionVars, codecVars>>

\* The server sends an event.
ServerEvent ==
    /\ ws.connection = "open"
    /\ ws.pushed < MaxPushed
    /\ \E name \in {"ScanningFinished", "DeviceAdded"} :
          ws' = [ws EXCEPT !.pushed = @ + 1,
                           !.inbox = Append(@, <<WireObject(name,
                                                    WirePayload(v, name))>>)]
    /\ UNCHANGED <<sessionVars, codecVars>>

\* websocket.py:63-66: the receive loop takes a frame from the connection
\* and emits 'receive'.
WsReceive ==
    /\ ws.loop = "running"
    /\ ws.inbox # <<>>
    /\ ws' = EventManager_emit([ws EXCEPT !.inbox = Tail(@),
                                          !.received = Append(@, Head(ws.inbox))],
                               "receive")
    /\ UNCHANGED <<sessionVars, codecVars>>

\* The server closes the connection.
ServerClose ==
    /\ ws.connection = "open"
    /\ ws' = [ws EXCEPT !.connection = "closed"]
    /\ UNCHANGED <<sessionVars, codecVars>>

\* websocket.py:65-74: the connection is closed and drained, the loop ends
\* and emits 'disconnect'.
WsLoopEnd ==
    /\ ws.loop = "running"
    /\ ws.connection = "closed"
    /\ ws.inbox = <<>>
    /\ ws' = EventManager_emit([ws EXCEPT !.loop = "ended"], "disconnect")
    /\ UNCHANGED <<sessionVars, codecVars>>

\* websocket.py:76-83: WebsocketConnector.disconnect closes the connection
\* and emits 'disconnect'.
WsDisconnect ==
    /\ ws.connection = "open"
    /\ ws' = EventManager_emit([ws EXCEPT !.connection = "closed"], "disconnect")
    /\ UNCHANGED <<sessionVars, codecVars>>

NextWs ==
    \/ WsConnect
    \/ WsConnected
    \/ WsConnectFailed
    \/ ServerReply
    \/ ServerEvent
    \/ WsReceive
    \/ ServerClose
    \/ WsLoopEnd
    \/ WsDisconnect

\* The event loop runs every task that can run; the server answers.
FairWs ==
    /\ WF_vars(WsConnect)
    /\ WF_vars(WsConnected \/ WsConnectFailed)
    /\ WF_vars(ServerReply)
    /\ WF_vars(WsReceive)
    /\ WF_vars(WsLoopEnd)

SpecWs == InitWs /\ [][NextWs]_vars /\ FairWs

-----------------------------------------------------------------------------
(* SpecDev: the operations of a Device and of its actuators and sensors    *)
(* (client.py:466-491, 537-1064) on a connected session.  A caller holds a *)
(* reference to a Device that was built at some time and to one of its     *)
(* parts; each operation runs up to its await in one step and goes on when *)
(* the future of its request is done.                                      *)

\* The frames the server sends in one run of SpecDev.
MaxDevFrames == 3

\* The coroutines that run device operations side by side in SpecDev.
NumDevCallers == 1
DevCallers == 1..NumDevCallers

\* The operations of SpecDev.
DeviceOps == {"stop", "command", "read", "subscribe", "unsubscribe"}

\* The DeviceMessages a server of version ver lists for a device: every kind
\* of part Device.__init__ builds for ver.  A v0 server that sends the names
\* as the keys of an object gets its device built (client.py:226-263 pops by
\* key); v1 attributes have no step_count, so the count is 0.
DeviceMessagesOf(ver) ==
    CASE ver = 0 ->
            JDict([StopDeviceCmd |-> JDict(<<>>),
                   SingleMotorVibrateCmd |-> JDict(<<>>),
                   KiirooCmd |-> JDict(<<>>),
                   FleshlightLaunchFW12Cmd |-> JDict(<<>>),
                   LovenseCmd |-> JDict(<<>>),
                   VorzeA10CycloneCmd |-> JDict(<<>>)])
      [] ver = 1 ->
            JDict([StopDeviceCmd |-> JDict(<<>>),
                   VibrateCmd |-> JDict([FeatureCount |-> 0])])
      [] ver = 2 ->
            JDict([StopDeviceCmd |-> JDict(<<>>),
                   VibrateCmd |-> JDict([FeatureCount |-> 1, StepCount |-> <<20>>]),
                   LinearCmd |-> JDict([FeatureCount |-> 1, StepCount |-> <<100>>]),
                   RotateCmd |-> JDict([FeatureCount |-> 1, StepCount |-> <<10>>]),
                   BatteryLevelCmd |-> JDict(<<>>),
                   RSSILevelCmd |-> JDict(<<>>)])
      [] ver = 3 ->
            JDict([StopDeviceCmd |-> JList(<<>>),
                   ScalarCmd |->
                      JList(<<JDict([StepCount |-> 20,
                                     FeatureDescriptor |-> "Clitoral Stimulator",
                                     ActuatorType |-> "Vibrate"])>>),
                   LinearCmd |->
                      JList(<<JDict([StepCount |-> 100,
                                     FeatureDescriptor |-> "Stroker"])>>),
                   RotateCmd |->
                      JList(<<JDict([StepCount |-> 10,
                                     FeatureDescriptor |-> "Rotator"])>>),
                   SensorReadCmd |->
                      JList(<<JDict([FeatureDescriptor |-> "Pressure Sensor",
                                     SensorType |-> "Pressure"]),
                              JDict([FeatureDescriptor |-> "Battery Level",
                                     SensorType |-> "Battery"])>>),
                   SensorSubscribeCmd |->
                      JList(<<JDict([FeatureDescriptor |-> "Pressure Sensor",
                                     SensorType |-> "Pressure"])>>)])

\* A SensorReading for sensor s of device d, with id i.
SensorReadingObject(i, d, s) ==
    WireObject("SensorReading",
       [Id |-> i, DeviceIndex |-> d, SensorIndex |-> s,
        SensorType |-> "Pressure", Data |-> <<591>>])

\* What the server may send to a client of version ver that runs device
\* operations: the device, its removal, the readings it pushes (of the
\* subscribable sensor 0, of sensor 1, of a sensor index past the list and
\* of two below 0, of an unknown device), an Ok to each request, and to the
\* first request an Error of each code, a reading of each kind and a message
\* that is no response to any operation; to the second request an Error.
DevObjects(ver) ==
    <<WireObject("DeviceAdded",
         [Id |-> 0, DeviceName |-> "TestDevice 1", DeviceIndex |-> 0,
          DeviceMessages |-> DeviceMessagesOf(ver)]),
      WireObject("DeviceRemoved", [Id |-> 0, DeviceIndex |-> 0])>>
    \o [s \in 1..5 |-> SensorReadingObject(0, 0, s - 3)]
    \o <<SensorReadingObject(0, 1, 0)>>
    \o [i \in 1..MaxMessages |-> WireObject("Ok", [Id |-> i])]
    \o [k \in 1..5 |->
          WireObject("Error", [Id |-> 1, ErrorMessage |-> "Device not found.",
                               ErrorCode |-> k - 1])]
    \o <<WireObject("Error", [Id |-> 2, ErrorMessage |-> "Device not found.",
                              ErrorCode |-> 4]),
         SensorReadingObject(1, 0, 0),
         WireObject("BatteryLevelReading",
            [Id |-> 1, DeviceIndex |-> 0, BatteryLevel |-> 1]),
         WireObject("RSSILevelReading",
            [Id |-> 1, DeviceIndex |-> 0, RSSILevel |-> -40]),
         WireObject("ScanningFinished", [Id |-> 1])>>

\* The frames of SpecDev: one object, or the readings of two sensors of the
\* device in one frame.
DevFrames(ver) ==
    [a \in 1..Len(DevObjects(ver)) |-> <<DevObjects(ver)[a]>>]
    \o <<<<SensorReadingObject(0, 0, 1), SensorReadingObject(0, 0, 0)>>>>

\* client.py:103: the decoder applied to each frame, for each version.
DevDecoded ==
    [ver \in ProtocolSpec |->
        [f \in 1..Len(DevFrames(ver)) |->
            Decoder_decode(DevFrames(ver)[f], ver)]]

InitDev ==
    /\ v \in ProtocolSpec
    /\ tasks = <<>>
    /\ futs = <<>>
    /\ scanning = None
    /\ devices = <<>>
    /\ devs = <<>>
    /\ pointer = None
    /\ sent = <<>>
    /\ log = [n |-> 0, frame |-> <<>>, out |-> <<>>, called |-> <<>>,
              raised |-> ""]
    /\ calls = [c \in Callers |-> IdleCall]
    /\ snaps = <<>>
    /\ CodecIdle
    /\ WsIdle

\* client.py:102-158: the transport calls Client._handle_message with a frame.
DevHandleFrame ==
    /\ log.n < MaxDevFrames
    /\ \E f \in 1..Len(DevFrames(v)) :
          Handled(Client_handle_message(ClientState, v, DevDecoded[v][f]),
                  DevFrames(v)[f])
    /\ UNCHANGED <<v, pointer, sent, calls, snaps, codecVars, ws>>

\* The message an operation constructs (client.py:472-474, 554-557, 586-589,
\* 618-622, 652-655, 685-689, 722-725, 751-754, 780-783, 824-827, 869, 905,
\* 958-962, 1024-1028, 1047-1051) for part k of the list L of device, with
\* fixed arguments; unsubscribe constructs a SensorSubscribeCmd too.
PartMessage(op, device, L, k, id) ==
    LET part == device[L][k]
        cmd(i, name, fields) ==
            Message(i, name, [k2 \in {"id", "device_index"} \cup DOMAIN fields |->
                CASE k2 = "id" -> id
                  [] k2 = "device_index" -> device.index
                  [] OTHER -> fields[k2]])
        sensor == [sensor_index |-> part.index, sensor_type |-> part.type.some]
    IN  CASE op = "stop" -> cmd(0, "StopDeviceCmd", <<>>)
          [] op = "command" ->
              (CASE part.kind = "SingleMotorVibrateActuator" ->
                       cmd(0, "SingleMotorVibrateCmd", [speed |-> 1])
                 [] part.kind = "KiirooActuator" ->
                       cmd(0, "KiirooCmd", [command |-> "4"])
                 [] part.kind = "FleshlightLaunchFW12Actuator" ->
                       cmd(0, "FleshlightLaunchFW12Cmd",
                           [position |-> 95, speed |-> 90])
                 [] part.kind = "LovenseActuator" ->
                       cmd(0, "LovenseCmd", [command |-> "Vibrate:20;"])
                 [] part.kind = "VorzeA10CycloneActuator" ->
                       cmd(0, "VorzeA10CycloneCmd",
                           [speed |-> 50, clockwise |-> TRUE])
                 [] part.kind = "VibrateActuator" ->
                       cmd(1, "VibrateCmd",
                           [speeds |-> <<[index |-> part.index, speed |-> 1]>>])
                 [] part.kind = "LinearActuator" ->
                       cmd(1, "LinearCmd",
                           [vectors |-> <<[index |-> part.index, duration |-> 500,
                                           position |-> 1]>>])
                 [] part.kind = "RotatoryActuator" ->
                       cmd(1, "RotateCmd",
                           [rotations |-> <<[index |-> part.index, speed |-> 1,
                                             clockwise |-> TRUE]>>])
                 [] part.kind = "ScalarActuator" ->
                       cmd(3, "ScalarCmd",
                           [scalars |-> <<[index |-> part.index, scalar |-> 1,
                                           actuator_type |-> part.type.some]>>]))
          [] op = "read" ->
              (CASE part.kind = "BatteryLevel" -> cmd(2, "BatteryLevelCmd", <<>>)
                 [] part.kind = "RSSILevel" -> cmd(2, "RSSILevelCmd", <<>>)
                 [] OTHER -> cmd(3, "SensorReadCmd", sensor))
          [] op = "subscribe" -> cmd(3, "SensorSubscribeCmd", sensor)
          [] op = "unsubscribe" -> cmd(3, "SensorSubscribeCmd", sensor)

\* client.py:489-491: Device.send hands the message to Client.send, whatever
\* Device._removed is.  local keeps the references the coroutine holds: the
\* Device, the part, the callback given, and what Device.removed was when
\* the operation was called.
Device_send(c, op, d, L, k, cb) ==
    /\ CanConstruct
    /\ Client_send(c, op,
          PartMessage(op, devs[d], L, k, AutoIncrementId_call(pointer)), futs,
          [dev |-> d, list |-> L, k |-> k, cb |-> cb,
           removed |-> devs[d].removed])
    /\ UNCHANGED <<v, scanning, devices, devs, log, snaps, codecVars, ws>>

\* A stop that sends whether or not the device lists StopDeviceCmd.
DeviceStop_unguarded(c) ==
    /\ calls[c].pc = "idle"
    /\ \E d \in 1..Len(devs) : Device_send(c, "stop", d, "", 0, "")

\* client.py:466-474: Device.stop up to its await, or to its raise.
DeviceStop(c) ==
    /\ calls[c].pc = "idle"
    /\ \E d \in 1..Len(devs) :
          IF devs[d].stop
          THEN Device_send(c, "stop", d, "", 0, "")
          ELSE /\ ReturnAtOnce(c, "stop", None,
                               RaiseOf("UnsupportedCommandError",
                                       <<"stop device">>))
               /\ UNCHANGED <<v, scanning, devices, devs, log, snaps,
                              codecVars, ws>>

\* The command method of an actuator of any kind, up to its await.
ActuatorCommand(c) ==
    /\ calls[c].pc = "idle"
    /\ \E d \in 1..Len(devs) :
       \E L \in {"actuators", "linear_actuators", "rotatory_actuators"} :
       \E k \in 1..Len(devs[d][L]) :
          Device_send(c, "command", d, L, k, "")

\* client.py:865-869, 901-905, 954-962: read of a sensor, up to its await.
SensorRead(c) ==
    /\ calls[c].pc = "idle"
    /\ \E d \in 1..Len(devs) : \E k \in 1..Len(devs[d].sensors) :
          Device_send(c, "read", d, "sensors", k, "")

\* client.py:1020-1028: SubscribableSensor.subscribe(cb) up to its await.
SensorSubscribe(c) ==
    /\ calls[c].pc = "idle"
    /\ \E d \in 1..Len(devs) : \E k \in 1..Len(devs[d].sensors) :
          /\ devs[d].sensors[k].kind = "SubscribableSensor"
          /\ Device_send(c, "subscribe", d, "sensors", k, "on_data")

\* client.py:1043-1051: SubscribableSensor.unsubscribe up to its await.
SensorUnsubscribe(c) ==
    /\ calls[c].pc = "idle"
    /\ \E d \in 1..Len(devs) : \E k \in 1..Len(devs[d].sensors) :
          /\ devs[d].sensors[k].kind = "SubscribableSensor"
          /\ Device_send(c, "unsubscribe", d, "sensors", k, "")

\* errors/server.py:42-52: ErrorCode.exception, the class of the error.
ErrorCode_exception(code) ==
    CASE code = 0 -> "UnknownServerError"
      [] code = 1 -> "InitServerError"
      [] code = 2 -> "PingServerError"
      [] code = 3 -> "MessageServerError"
      [] code = 4 -> "DeviceServerError"

\* What an operation returns or raises, with the arguments of the exception.
Returned(ret, callback) == [raised |-> "", ret |-> ret, callback |-> callback]
Thrown(e, args) == [raised |-> e, ret |-> args, callback |-> None]

\* An operation that takes every response for Ok.
Device_respond_unchecked(op, device, local, message) ==
    Returned(None,
             CASE op = "subscribe" -> Some(local.cb)
               [] op = "unsubscribe" -> Some("_no_callback")
               [] OTHER -> None)

\* An operation that installs its callback before it looks at the response.
Device_respond_eager(op, device, local, message) ==
    IF message.cls = Class(0, "Error")
    THEN [Thrown(ErrorCode_exception(message.fields.error_code),
                 <<message.fields.error_code, message.fields.error_message>>)
            EXCEPT !.callback = CASE op = "subscribe" -> Some(local.cb)
                                  [] op = "unsubscribe" -> Some("_no_callback")
                                  [] OTHER -> None]
    ELSE IF message.cls = Class(0, "Ok")
    THEN Device_respond_unchecked(op, device, local, message)
    ELSE Thrown("UnexpectedMessageError", <<>>)

\* client.py:476-487 and the like in every operation (559-570, ..., 1053-1064):
\* what the operation does with the response of its request.  callback is
\* the value assigned to SubscribableSensor._callback, if any.
Device_respond(op, device, local, message) ==
    IF op # "read" /\ message.cls = Class(0, "Ok")
    THEN Returned(None,
                  CASE op = "subscribe" -> Some(local.cb)
                    [] op = "unsubscribe" -> Some("_no_callback")
                    [] OTHER -> None)
    ELSE IF /\ op = "read"
            /\ device.sensors[local.k].kind = "BatteryLevel"
            /\ message.cls = Class(2, "BatteryLevelReading")
    THEN Returned(<<message.fields.battery_level>>, None)
    ELSE IF /\ op = "read"
            /\ device.sensors[local.k].kind = "RSSILevel"
            /\ message.cls = Class(2, "RSSILevelReading")
    THEN Returned(<<message.fields.rssi_level>>, None)
    ELSE IF /\ op = "read"
            /\ device.sensors[local.k].kind \in {"GenericSensor", "SubscribableSensor"}
            /\ message.cls = Class(3, "SensorReading")
    THEN Returned(message.fields.data, None)
    ELSE IF message.cls = Class(0, "Error")
    THEN Thrown(ErrorCode_exception(message.fields.error_code),
                <<message.fields.error_code, message.fields.error_message>>)
    ELSE Thrown("UnexpectedMessageError", <<>>)

\* The coroutine of caller c after the await, r what the operation made of
\* the response.
DeviceResumed(c, r) ==
    /\ calls' = [calls EXCEPT ![c].pc = "done", ![c].resumes = @ + 1,
                              ![c].ret = r.ret, ![c].raised = r.raised]
    /\ devs' = IF r.callback = None THEN devs
               ELSE [devs EXCEPT ![calls[c].local.dev].sensors[calls[c].local.k]
                                     .callback = r.callback.some]

\* client.py:56-58, 491 and the rest of the operation: the future of send is
\* done, Client.send returns its result and the operation goes on to its end.
DeviceResume(c) ==
    /\ calls[c].pc = "await"
    /\ calls[c].op \in DeviceOps
    /\ futs[calls[c].future.fut].done
    /\ DeviceResumed(c, Device_respond(calls[c].op, devs[calls[c].local.dev],
                                       calls[c].local,
                                       futs[calls[c].future.fut].result))
    /\ UNCHANGED <<v, tasks, futs, scanning, devices, pointer, sent, log,
                   snaps, codecVars, ws>>

NextDev ==
    \/ \E c \in DevCallers : DeviceStop(c)
    \/ \E c \in DevCallers : ActuatorCommand(c)
    \/ \E c \in DevCallers : SensorRead(c)
    \/ \E c \in DevCallers : SensorSubscribe(c)
    \/ \E c \in DevCallers : SensorUnsubscribe(c)
    \/ \E c \in DevCallers : DeviceResume(c)
    \/ \E c \in DevCallers : Forget(c)
    \/ DevHandleFrame

SpecDev == InitDev /\ [][NextDev]_vars

-----------------------------------------------------------------------------
(* SpecConn: the life of a connection.  Client.connect runs the handshake  *)
(* over a Connector that calls its callback with the frames of the server; *)
(* the ping loop runs as a task of its own; a caller runs stop_all and     *)
(* another runs Client.disconnect.  ws is the Connector, with the calls    *)
(* made on it in order (trace).                                            *)

\* The frames the server sends in one run of SpecConn, and the messages
\* constructed in one run.
MaxConnFrames == 3
MaxConnMessages == 4

\* abstract.py:9-10 and the callback Client._connect sets on the connector.
Connector_init == [connected |-> FALSE, callback |-> None, trace |-> <<>>]

\* client.py:27 and 95: the task of the ping loop.  pc is "none" before
\* create_task; held is Client._ping_loop_task referring to the task; cancel
\* is a cancellation requested and not yet delivered; at is where the
\* cancellation found the coroutine, ended how the task ended; interval is
\* the argument of _ping_loop in microseconds.
NoPingTask ==
    [pc |-> "none", interval |-> 0, id |-> 0, future |-> None,
     held |-> FALSE, cancel |-> FALSE, at |-> "", ended |-> ""]

\* client.py:95: max_ping_interval / 2 / 1000 seconds, in microseconds.
ping_interval(max_ping_interval) == max_ping_interval * 500

\* A handshake that starts a ping loop for every max_ping_time.
create_ping_task_always(max_ping_interval) ==
    [NoPingTask EXCEPT !.pc = "created", !.held = TRUE,
                       !.interval = ping_interval(max_ping_interval)]

\* client.py:94-95: the ping loop task, created when max_ping_interval > 0.
create_ping_task(max_ping_interval) ==
    IF max_ping_interval > 0
    THEN [NoPingTask EXCEPT !.pc = "created", !.held = TRUE,
                            !.interval = ping_interval(max_ping_interval)]
    ELSE NoPingTask

\* The devices of a DeviceList: the test device under index 0 and under 1.
ListedDevices(ver) ==
    <<WirePayload(ver, "DeviceList").Devices[1],
      [WirePayload(ver, "DeviceList").Devices[1] EXCEPT !.DeviceIndex = 1]>>

\* What the server may send during a connection: a ServerInfo without and
\* with a ping time, a DeviceList of two devices, an Error to the first
\* request, and an Ok to each request after the handshake.
ConnObjects(ver) ==
    <<WireObject("ServerInfo",
         [WirePayload(IF ver >= 2 THEN 2 ELSE 0, "ServerInfo")
             EXCEPT !.MaxPingTime = 0]),
      WireObject("ServerInfo",
         [WirePayload(IF ver >= 2 THEN 2 ELSE 0, "ServerInfo")
             EXCEPT !.MaxPingTime = 5]),
      WireObject("DeviceList", [Id |-> 2, Devices |-> ListedDevices(ver)]),
      WireObject("Error", [Id |-> 1, ErrorMessage |-> "Handshake failed.",
                           ErrorCode |-> 1])>>
    \o [i \in 1..(MaxConnMessages - 2) |-> WireObject("Ok", [Id |-> i + 2])]

ConnFrames(ver) == [a \in 1..Len(ConnObjects(ver)) |-> <<ConnObjects(ver)[a]>>]

\* client.py:103: the decoder applied to each frame, for each version.
ConnDecoded ==
    [ver \in ProtocolSpec |->
        [f \in 1..Len(ConnFrames(ver)) |->
            Decoder_decode(ConnFrames(ver)[f], ver)]]

InitConn ==
    /\ v \in ProtocolSpec
    /\ tasks = <<>>
    /\ futs = <<>>
    /\ scanning = None
    /\ devices = <<>>
    /\ devs = <<>>
    /\ pointer = None
    /\ sent = <<>>
    /\ log = [n |-> 0, frame |-> <<>>, out |-> <<>>, called |-> <<>>,
              raised |-> ""]
    /\ calls = [connect |-> IdleCall, reconnect |-> IdleCall,
                stop_all |-> IdleCall, disconnect |-> IdleCall,
                ping |-> NoPingTask]
    /\ snaps = <<>>
    /\ CodecIdle
    /\ ws = Connector_init

\* Client.connect that hands the connector its callback after connecting.
\* Client._connector: None until connect assigned it (client.py:19, 73).
Client_connector == IF calls.connect.pc = "idle" THEN None ELSE Some("ws")

\* client.py:76-81: reconnect, called on a client that connect was not
\* called on yet.  Without a connector it logs the ReconnectError and raises
\* it; with one it runs _connect up to the await of connector.connect().
ConnReconnect ==
    /\ calls.reconnect.pc = "idle"
    /\ calls.connect.pc = "idle"
    /\ IF Client_connector = None
       THEN /\ calls' = [calls EXCEPT !.reconnect =
                   [IdleCall EXCEPT
                       !.op = "reconnect", !.pc = "done",
                       !.local = [logged |-> <<[level |-> "error",
                                                what |-> "ReconnectError"]>>],
                       !.entry = [pending |-> DOMAIN tasks],
                       !.raised = RaiseOf("ReconnectError", <<"Test Client">>)]]
            /\ UNCHANGED ws
       ELSE /\ ws' = [ws EXCEPT !.callback = [method |-> "Client._handle_message"],
                                !.trace = @ \o <<"callback", "connect">>]
            /\ calls' = [calls EXCEPT !.reconnect =
                   [IdleCall EXCEPT !.op = "reconnect", !.pc = "connecting"]]
    /\ UNCHANGED <<v, tasks, futs, scanning, devices, devs, pointer, sent, log,
                   snaps, codecVars>>

ConnConnect_late ==
    /\ calls.connect.pc = "idle"
    /\ ws' = [ws EXCEPT !.callback = [method |-> "Client._handle_message"],
                        !.trace = @ \o <<"connect", "callback">>]
    /\ calls' = [calls EXCEPT !.connect =
                   [IdleCall EXCEPT !.op = "connect", !.pc = "connecting"]]
    /\ UNCHANGED <<v, tasks, futs, scanning, devices, devs, pointer, sent, log,
                   snaps, codecVars>>

\* client.py:72-74, 83-85: Client.connect up to await connector.connect().
ConnConnect ==
    /\ calls.connect.pc = "idle"
    /\ ws' = [ws EXCEPT !.callback = [method |-> "Client._handle_message"],
                        !.trace = @ \o <<"callback", "connect">>]
    /\ calls' = [calls EXCEPT !.connect =
                   [IdleCall EXCEPT !.op = "connect", !.pc = "connecting"]]
    /\ UNCHANGED <<v, tasks, futs, scanning, devices, devs, pointer, sent, log,
                   snaps, codecVars>>

\* client.py:85-91: connector.connect() returns, _connect sends
\* RequestServerInfo and awaits the response.
ConnConnected ==
    /\ calls.connect.pc = "connecting"
    /\ Client_send("connect", "connect", RequestServerInfo(v), futs,
                   [stage |-> "info", max_ping_interval |-> 0])
    /\ ws' = [ws EXCEPT !.connected = TRUE]
    /\ UNCHANGED <<v, scanning, devices, devs, log, snaps, codecVars>>

\* client.py:102-158: the connector calls Client._handle_message with a frame.
ConnHandleFrame ==
    /\ ws.connected
    /\ ws.callback # None
    /\ log.n < MaxConnFrames
    /\ \E f \in 1..Len(ConnFrames(v)) :
          Handled(Client_handle_message(ClientState, v, ConnDecoded[v][f]),
                  ConnFrames(v)[f])
    /\ UNCHANGED <<v, pointer, sent, calls, snaps, codecVars, ws>>

\* The coroutine c ends raising e.
Raises(c, e) ==
    /\ calls' = [calls EXCEPT ![c].pc = "done", ![c].raised = e,
                              ![c].resumes = @ + 1]
    /\ UNCHANGED <<tasks, futs, pointer, sent>>

\* client.py:91-97: _connect after the response to RequestServerInfo: the
\* ping loop is started, RequestDeviceList is sent and its response awaited.
\* getattr raises AttributeError on a response without max_ping_time.
ConnectInfo ==
    /\ calls.connect.pc = "await"
    /\ calls.connect.local.stage = "info"
    /\ futs[calls.connect.future.fut].done
    /\ IF "max_ping_time" \notin DOMAIN futs[calls.connect.future.fut].result.fields
       THEN Raises("connect", "AttributeError")
       ELSE /\ pointer' = Some(AutoIncrementId_call(pointer))
            /\ futs' = Append(futs, Future("send"))
            /\ tasks' = DictSet(tasks, AutoIncrementId_call(pointer),
                                [fut |-> Len(futs) + 1])
            /\ sent' = Append(sent, Encoder_encode(<<NewMessage("RequestDeviceList")>>))
            /\ calls' =
                  [calls EXCEPT
                     !.connect =
                        [@ EXCEPT !.id = AutoIncrementId_call(pointer),
                                  !.future = [fut |-> Len(futs) + 1],
                                  !.resumes = @ + 1,
                                  !.local =
                                     [stage |-> "list",
                                      max_ping_interval |->
                                         futs[calls.connect.future.fut]
                                            .result.fields.max_ping_time]],
                     !.ping =
                        create_ping_task(futs[calls.connect.future.fut]
                                            .result.fields.max_ping_time)]
    /\ UNCHANGED <<v, scanning, devices, devs, log, snaps, codecVars, ws>>

\* client.py:99-100: _create_device for each device of the list, in order.
RECURSIVE CreateDevices(_, _, _, _)
CreateDevices(st, ver, listed, n) ==
    IF n > Len(listed) THEN st
    ELSE IF st.raised # "" THEN st
    ELSE CreateDevices(Client_create_device(st, ver, listed[n]), ver, listed,
                       n + 1)

\* The Client after _connect's loop ended in st, and connect with it.
Connected(st) ==
    /\ devices' = st.devices
    /\ devs' = st.devs
    /\ calls' = [calls EXCEPT !.connect.pc = "done",
                              !.connect.raised = st.raised,
                              !.connect.resumes = @ + 1]

\* client.py:97-100: _connect after the response to RequestDeviceList.
ConnectList ==
    /\ calls.connect.pc = "await"
    /\ calls.connect.local.stage = "list"
    /\ futs[calls.connect.future.fut].done
    /\ IF "devices" \notin DOMAIN futs[calls.connect.future.fut].result.fields
       THEN /\ Raises("connect", "AttributeError")
            /\ UNCHANGED <<devices, devs>>
       ELSE /\ Connected(CreateDevices(ClientState, v,
                  futs[calls.connect.future.fut].result.fields.devices, 1))
            /\ UNCHANGED <<tasks, futs, pointer, sent>>
    /\ UNCHANGED <<v, scanning, log, snaps, codecVars, ws>>

\* client.py:193-194: stop_all up to the await in Client.send.
ConnStopAll ==
    /\ calls.stop_all.pc = "idle"
    /\ calls.connect.pc = "done"
    /\ calls.connect.raised = ""
    /\ pointer.some < MaxConnMessages
    /\ Client_send("stop_all", "stop_all", NewMessage("StopAllDevices"), futs,
                   None)
    /\ UNCHANGED <<v, scanning, devices, devs, log, snaps, codecVars, ws>>

\* client.py:56-58, 194-195: stop_all after the await.
ConnStopAllResume ==
    /\ calls.stop_all.pc = "await"
    /\ futs[calls.stop_all.future.fut].done
    /\ calls' = [calls EXCEPT !.stop_all.pc = "done",
                              !.stop_all.resumes = @ + 1]
    /\ UNCHANGED <<v, tasks, futs, scanning, devices, devs, pointer, sent, log,
                   snaps, codecVars, ws>>

\* client.py:163 and 53-55: the ping loop constructs a Ping, Client.send
\* files its future and awaits connector.send with the frame.
PingSend ==
    /\ ~calls.ping.cancel
    /\ pointer.some < MaxConnMessages
    /\ pointer' = Some(AutoIncrementId_call(pointer))
    /\ futs' = Append(futs, Future("send"))
    /\ tasks' = DictSet(tasks, AutoIncrementId_call(pointer),
                        [fut |-> Len(futs) + 1])
    /\ sent' = Append(sent, Encoder_encode(<<NewMessage("Ping")>>))
    /\ calls' = [calls EXCEPT !.ping.pc = "send",
                              !.ping.id = AutoIncrementId_call(pointer),
                              !.ping.future = [fut |-> Len(futs) + 1]]
    /\ UNCHANGED <<v, scanning, devices, devs, log, snaps, codecVars, ws>>

\* client.py:160-163: the first step of the task.
PingStart ==
    /\ calls.ping.pc = "created"
    /\ PingSend

\* client.py:55-56: connector.send returns, Client.send awaits the future.
PingSent ==
    /\ calls.ping.pc = "send"
    /\ ~calls.ping.cancel
    /\ calls' = [calls EXCEPT !.ping.pc = "await"]
    /\ UNCHANGED <<v, tasks, futs, scanning, devices, devs, pointer, sent, log,
                   snaps, codecVars, ws>>

\* client.py:56-58, 163-165: the response is there and is dropped; the loop
\* sleeps for interval.
PingResume ==
    /\ calls.ping.pc = "await"
    /\ ~calls.ping.cancel
    /\ futs[calls.ping.future.fut].done
    /\ calls' = [calls EXCEPT !.ping.pc = "sleep"]
    /\ UNCHANGED <<v, tasks, futs, scanning, devices, devs, pointer, sent, log,
                   snaps, codecVars, ws>>

\* client.py:165, 162-163: the sleep is over, the loop sends the next Ping.
PingWake ==
    /\ calls.ping.pc = "sleep"
    /\ PingSend

\* Task.cancel then await of the task and of what follows at once.
Disconnect_no_wait ==
    /\ calls.disconnect.pc = "idle"
    /\ ws.callback # None
    /\ calls' = [calls EXCEPT
                   !.disconnect = [IdleCall EXCEPT !.op = "disconnect",
                                                   !.pc = "disconnecting",
                                                   !.entry = [pending |-> DOMAIN tasks]],
                   !.ping.cancel = calls.ping.held /\ calls.ping.ended = "",
                   !.ping.held = FALSE]
    /\ ws' = [ws EXCEPT !.trace = Append(@, "disconnect")]
    /\ UNCHANGED <<v, tasks, futs, scanning, devices, devs, pointer, sent, log,
                   snaps, codecVars>>

\* client.py:169-174: Client.disconnect up to its first await: of the ping
\* loop task it cancelled, or of connector.disconnect().  entry keeps the ids
\* that were in Client._tasks when disconnect was called.
Disconnect ==
    /\ calls.disconnect.pc = "idle"
    /\ ws.callback # None
    /\ IF calls.ping.held
       THEN /\ calls' = [calls EXCEPT
                           !.disconnect = [IdleCall EXCEPT !.op = "disconnect",
                                                           !.pc = "await_task",
                                                           !.entry = [pending |-> DOMAIN tasks]],
                           !.ping.cancel = calls.ping.ended = ""]
            /\ ws' = ws
       ELSE /\ calls' = [calls EXCEPT
                           !.disconnect = [IdleCall EXCEPT !.op = "disconnect",
                                                           !.pc = "disconnecting",
                                                           !.entry = [pending |-> DOMAIN tasks]]]
            /\ ws' = [ws EXCEPT !.trace = Append(@, "disconnect")]
    /\ UNCHANGED <<v, tasks, futs, scanning, devices, devs, pointer, sent, log,
                   snaps, codecVars>>

\* client.py:161-167: the cancellation reaches the task.  CancelledError is
\* raised at the await the coroutine is suspended in, inside the try, and
\* the coroutine returns; a task that has not run its first step ends
\* cancelled, outside the try.  A pending future the coroutine awaited is
\* cancelled and stays in Client._tasks.
PingCancelled ==
    /\ calls.ping.cancel
    /\ calls.ping.ended = ""
    /\ calls' = [calls EXCEPT
                   !.ping.cancel = FALSE,
                   !.ping.at = calls.ping.pc,
                   !.ping.pc = "done",
                   !.ping.ended = IF calls.ping.pc = "created" THEN "cancelled"
                                  ELSE "returned"]
    /\ futs' = IF calls.ping.pc = "await"
               THEN [futs EXCEPT ![calls.ping.future.fut].done = TRUE]
               ELSE futs
    /\ UNCHANGED <<v, tasks, scanning, devices, devs, pointer, sent, log,
                   snaps, codecVars, ws>>

\* client.py:172-174: the awaited task has ended.  A cancelled task raises
\* CancelledError in disconnect; otherwise disconnect drops the task and
\* awaits connector.disconnect().
DisconnectResume ==
    /\ calls.disconnect.pc = "await_task"
    /\ calls.ping.ended # ""
    /\ IF calls.ping.ended = "cancelled"
       THEN /\ calls' = [calls EXCEPT !.disconnect.pc = "done",
                                      !.disconnect.raised = "CancelledError"]
            /\ ws' = ws
       ELSE /\ calls' = [calls EXCEPT !.disconnect.pc = "disconnecting",
                                      !.ping.held = FALSE]
            /\ ws' = [ws EXCEPT !.trace = Append(@, "disconnect")]
    /\ UNCHANGED <<v, tasks, futs, scanning, devices, devs, pointer, sent, log,
                   snaps, codecVars>>

\* client.py:174: connector.disconnect() returns, and disconnect with it.
Disconnected ==
    /\ calls.disconnect.pc = "disconnecting"
    /\ ws' = [ws EXCEPT !.connected = FALSE]
    /\ calls' = [calls EXCEPT !.disconnect.pc = "done"]
    /\ UNCHANGED <<v, tasks, futs, scanning, devices, devs, pointer, sent, log,
                   snaps, codecVars>>

NextConn ==
    \/ ConnConnect
    \/ ConnReconnect
    \/ ConnConnected
    \/ ConnHandleFrame
    \/ ConnectInfo
    \/ ConnectList
    \/ ConnStopAll
    \/ ConnStopAllResume
    \/ PingStart
    \/ PingSent
    \/ PingResume
    \/ PingWake
    \/ Disconnect
    \/ PingCancelled
    \/ DisconnectResume
    \/ Disconnected

SpecConn == InitConn /\ [][NextConn]_vars

-----------------------------------------------------------------------------
(* SpecBuild: Device.__init__ as a function of the capability map.  Init   *)
(* draws the version, the device index and the map a server lists for the  *)
(* device, in a DeviceAdded or as the one entry of a DeviceList; the       *)
(* client builds the Device and a caller stops it.                         *)

\* The feature_count a v1 or v2 server gives at most.
MaxFeatures == 2

\* The entries of SensorReadCmd and of SensorSubscribeCmd at most.
MaxSensors == 2
MaxSubscribes == 2

\* The device indexes a server gives, from 0.
MaxBuildIndex == 1

\* The record of the names whose value in pairs, a sequence of
\* <<name, optional value>>, is not None.
MapOf(pairs) ==
    [n \in {pairs[i][1] : i \in {j \in 1..Len(pairs) : pairs[j][2] # None}} |->
        pairs[CHOOSE i \in 1..Len(pairs) : pairs[i][1] = n][2].some]

\* x when cond, else absent.
Given(cond, x) == IF cond THEN Some(x) ELSE None

\* The sequences over S of length n at most.
SeqsUpTo(S, n) == UNION {[1..k -> S] : k \in 0..n}

\* The names of the v0 device messages and one that Device.__init__ does not
\* know (v0.py:133-170).
V0Names ==
    {"StopDeviceCmd", "SingleMotorVibrateCmd", "KiirooCmd",
     "FleshlightLaunchFW12Cmd", "LovenseCmd", "VorzeA10CycloneCmd",
     "RawCmd"}

\* DeviceMessages of a v0 server: the list of names the protocol gives
\* (v0.py:107-111), or the names as the keys of an object.
BuildMapsV0 ==
    {JList(SetToSeq(S)) : S \in SUBSET V0Names}
    \cup {JDict([n \in S |-> JDict(<<>>)]) : S \in SUBSET V0Names}

\* What a v1 or v2 server may list under VibrateCmd, LinearCmd or RotateCmd:
\* nothing, attributes without FeatureCount, or a count up to MaxFeatures
\* (under v2 with one StepCount for each feature).
CountChoices(ver) ==
    <<None, Some(JDict(<<>>))>>
    \o [n \in 1..(MaxFeatures + 1) |->
          Some(JDict(IF ver = 1 THEN [FeatureCount |-> n - 1]
                     ELSE [FeatureCount |-> n - 1,
                           StepCount |-> [i \in 1..(n - 1) |-> 20]]))]

\* The rest of a map, variant k of 0..2: StopDeviceCmd unless k = 1, the
\* level sensors when k = 0, a name Device.__init__ does not pop when k = 2.
RestOfMap(ver, k) ==
    <<<<"StopDeviceCmd", Given(k # 1, JDict(<<>>))>>,
      <<"BatteryLevelCmd", Given(k = 0 /\ ver = 2, JDict(<<>>))>>,
      <<"RSSILevelCmd", Given(k = 0 /\ ver = 2, JDict(<<>>))>>,
      <<"RawReadCmd",
        Given(k = 2, IF ver = 3 THEN JList(<<JDict([Endpoint |-> <<"tx">>])>>)
                     ELSE JDict(<<>>))>>>>

\* DeviceMessages of a v1 or v2 server, one choice for each counted command.
CountedMap(ver, a, b, c, k) ==
    JDict(MapOf(<<<<"VibrateCmd", CountChoices(ver)[a]>>,
                  <<"LinearCmd", CountChoices(ver)[b]>>,
                  <<"RotateCmd", CountChoices(ver)[c]>>>>
                \o RestOfMap(ver, k)))

\* The wire attributes of a v3 sensor (v3.py:36-47).
SensorAttributes(descriptor, type, high) ==
    JDict([FeatureDescriptor |-> descriptor, SensorType |-> type,
           SensorRange |-> << <<0, high>> >>])

\* The sensors a v3 server lists under SensorReadCmd: two that share
\* descriptor and type, and a third.
ReadableSensors ==
    {SensorAttributes("Pressure Sensor", "Pressure", 100),
     SensorAttributes("Pressure Sensor", "Pressure", 1),
     SensorAttributes("Battery Level", "Battery", 100)}

\* The sensors it lists under SensorSubscribeCmd: two of the readable ones
\* and one that SensorReadCmd never lists.
SubscribedSensors ==
    {SensorAttributes("Pressure Sensor", "Pressure", 100),
     SensorAttributes("Battery Level", "Battery", 100),
     SensorAttributes("Button", "Button", 1)}

\* n actuator attributes, each with its own descriptor.
ActuatorAttributes(n) ==
    [i \in 1..n |->
        JDict([FeatureDescriptor |-> <<"Feature", i>>, StepCount |-> 20,
               ActuatorType |-> "Vibrate"])]

\* DeviceMessages of a v3 server: the sensors read and subscribed, and k,
\* k + 1 and k + 2 actuators modulo 3 of the three kinds.
V3Map(read, subscribed, k) ==
    JDict(MapOf(<<<<"ScalarCmd",
                    Given(k > 0, JList(ActuatorAttributes(k)))>>,
                  <<"LinearCmd",
                    Given((k + 1) % 3 > 0,
                          JList(ActuatorAttributes((k + 1) % 3)))>>,
                  <<"RotateCmd",
                    Given((k + 2) % 3 > 0,
                          JList(ActuatorAttributes((k + 2) % 3)))>>,
                  <<"SensorReadCmd", Given(read # <<>>, JList(read))>>,
                  <<"SensorSubscribeCmd",
                    Given(subscribed # <<>>, JList(subscribed))>>>>
                \o RestOfMap(3, k)))

\* The object that carries the map dm for device index: a DeviceAdded, or
\* the DeviceList that answers RequestDeviceList.
BuildObject(listed, index, dm) ==
    IF listed
    THEN WireObject("DeviceList",
            [Id |-> 1,
             Devices |-> <<[DeviceName |-> "TestDevice 1",
                            DeviceIndex |-> index,
                            DeviceMessages |-> dm]>>])
    ELSE WireObject("DeviceAdded",
            [Id |-> 0, DeviceName |-> "TestDevice 1", DeviceIndex |-> index,
             DeviceMessages |-> dm])

\* The input drawn: the frame and the map in it.
BuildInput(listed, index, dm) ==
    cin = [listed |-> listed, index |-> index, messages |-> dm,
           frame |-> <<BuildObject(listed, index, dm)>>]

InitBuild ==
    /\ v \in ProtocolSpec
    /\ tasks = <<>>
    /\ futs = <<>>
    /\ scanning = None
    /\ devices = <<>>
    /\ devs = <<>>
    /\ pointer = None
    /\ sent = <<>>
    /\ log = [n |-> 0, frame |-> <<>>, out |-> <<>>, called |-> <<>>,
              raised |-> ""]
    /\ calls = [c \in Callers |-> IdleCall]
    /\ snaps = <<>>
    /\ cout = None
    /\ WsIdle
    /\ \E listed \in BOOLEAN, index \in 0..MaxBuildIndex :
          CASE v = 0 -> \E dm \in BuildMapsV0 : BuildInput(listed, index, dm)
            [] v \in {1, 2} ->
                  \E a, b, c \in 1..(MaxFeatures + 3), k \in 0..2 :
                     BuildInput(listed, index, CountedMap(v, a, b, c, k))
            [] v = 3 ->
                  \E read \in SeqsUpTo(ReadableSensors, MaxSensors),
                     subscribed \in SeqsUpTo(SubscribedSensors, MaxSubscribes),
                     k \in 0..2 :
                     BuildInput(listed, index, V3Map(read, subscribed, k))

\* The transport passes the DeviceAdded to Client._handle_message.
BuildAdded ==
    /\ log.n = 0
    /\ ~cin.listed
    /\ Handled(Client_handle_message(ClientState, v,
                                     Decoder_decode(cin.frame, v)),
               cin.frame)
    /\ UNCHANGED <<v, pointer, sent, calls, snaps, codecVars, ws>>

\* client.py:97-100: _connect creates the devices of the DeviceList that
\* answered its RequestDeviceList; log keeps the exception that ended it.
BuildListed ==
    /\ log.n = 0
    /\ cin.listed
    /\ Handled(CreateDevices(ClientState, v,
                  Decoder_decode(cin.frame, v).value[1].fields.devices, 1),
               cin.frame)
    /\ UNCHANGED <<v, pointer, sent, calls, snaps, codecVars, ws>>

\* A caller stops the device that was built.
BuildStop == \E c \in DevCallers : DeviceStop(c)

NextBuild ==
    \/ BuildAdded
    \/ BuildListed
    \/ BuildStop

SpecBuild == InitBuild /\ [][NextBuild]_vars

-----------------------------------------------------------------------------
(* SpecIds: the id generator past its upper bound.  Callers send one       *)
(* request after another, the server answers the requests that wait with   *)
(* Ok; the run is long enough for the generator to wrap around.            *)

\* The messages constructed in one run of SpecIds: more than the generator
\* has ids.
MaxIdMessages == 9

\* The Ok that answers request i, as the transport delivers it.
IdFrame(i) == <<WireObject("Ok", [Id |-> i])>>

\* client.py:103: self._decoder.decode(message) for each of these frames.
IdDecoded ==
    [i \in AutoIncrementId_lower_bound..AutoIncrementId_upper_bound |->
        Decoder_decode(IdFrame(i), ProtocolSpec_last)]

\* client.py:52-56: a caller of Client.send with a new StopAllDevices.
IdSend(c) ==
    /\ calls[c].pc = "idle"
    /\ Len(sent) < MaxIdMessages
    /\ Client_send(c, "send", NewMessage("StopAllDevices"), futs, None)
    /\ UNCHANGED <<v, scanning, devices, devs, log, snaps, codecVars, ws>>

\* client.py:102-158: the transport calls Client._handle_message with the
\* answer to a request that is in the table.
IdHandleFrame ==
    \E i \in DOMAIN tasks :
       /\ Handled(Client_handle_message(ClientState, v, IdDecoded[i]),
                  IdFrame(i))
       /\ UNCHANGED <<v, pointer, sent, calls, snaps, codecVars, ws>>

NextIds ==
    \/ \E c \in Callers : IdSend(c)
    \/ IdHandleFrame
    \/ \E c \in Callers : Resume(c)
    \/ \E c \in Callers : Forget(c)

SpecIds == Init /\ [][NextIds]_vars

-----------------------------------------------------------------------------
(* SpecEvents: an EventManager of its own.  ws is the manager: its events, *)
(* the listeners that the last call invoked, in order, the exception the   *)
(* last call raised, and the call itself.                                  *)

\* The listeners one event has at most.
MaxListeners == 3

\* The event names that callers use.
EventNames == {"connect", "receive"}

\* The callbacks that callers register.
Callbacks_registered == {"listener_a", "listener_b", "stop_chain"}

\* manager.py:12-13: EventManager.__init__.
EventManager_init ==
    [events |-> <<>>, invoked |-> <<>>, raised |-> "", op |-> None]

\* The manager as a call of op finds it.
Entered(b, op, event, strict) ==
    [b EXCEPT !.invoked = <<>>, !.raised = "",
              !.op = [name |-> op, event |-> event, strict |-> strict,
                      before |-> b.events]]

\* event.py:22-25: Event.__iadd__.
Event_iadd(callbacks, callback) == Append(callbacks, callback)

\* manager.py:15-30: EventManager.on(event, callback); callback None is the
\* decorator form, that creates the event and registers nothing yet.
EventManager_on(b, event, callback) ==
    [b EXCEPT !.events =
        IF callback = None
        THEN DictSet(@, event, IF event \in DOMAIN @ THEN @[event] ELSE <<>>)
        ELSE DictSet(@, event,
                     Event_iadd(IF event \in DOMAIN @ THEN @[event] ELSE <<>>,
                                callback.some))]

\* event.py:27-30: Event.__isub__, list.remove: the first occurrence goes.
Event_isub(callbacks, callback) ==
    SubSeq(callbacks, 1,
           (CHOOSE k \in 1..Len(callbacks) :
               /\ callbacks[k] = callback
               /\ \A h \in 1..(k - 1) : callbacks[h] # callback) - 1)
    \o SubSeq(callbacks,
              (CHOOSE k \in 1..Len(callbacks) :
                  /\ callbacks[k] = callback
                  /\ \A h \in 1..(k - 1) : callbacks[h] # callback) + 1,
              Len(callbacks))

\* manager.py:32-38: EventManager.off(event, callback, strict).
EventManager_off(b, event, callback, strict) ==
    IF event \notin DOMAIN b.events
    THEN IF strict THEN [b EXCEPT !.raised = "NonexistentEvent"] ELSE b
    ELSE IF \A k \in 1..Len(b.events[event]) : b.events[event][k] # callback
    THEN [b EXCEPT !.raised = "ValueError"]
    ELSE [b EXCEPT !.events[event] = Event_isub(@, callback)]

InitEvents ==
    /\ SessionIdle
    /\ CodecIdle
    /\ ws = EventManager_init

\* A caller registers a callback, or creates the event by the decorator form.
EventsOn ==
    /\ \E event \in EventNames :
          /\ event \in DOMAIN ws.events => Len(ws.events[event]) < MaxListeners
          /\ \/ \E callback \in Callbacks_registered :
                   ws' = EventManager_on(Entered(ws, "on", event, TRUE), event,
                                         Some(callback))
             \/ ws' = EventManager_on(Entered(ws, "on", event, TRUE), event,
                                      None)
    /\ UNCHANGED <<sessionVars, codecVars>>

\* A caller removes a callback.
EventsOff ==
    /\ \E event \in EventNames, callback \in Callbacks_registered,
          strict \in BOOLEAN :
          ws' = EventManager_off(Entered(ws, "off", event, strict), event,
                                 callback, strict)
    /\ UNCHANGED <<sessionVars, codecVars>>

\* A caller emits an event.
EventsEmit ==
    /\ \E event \in EventNames, strict \in BOOLEAN :
          ws' = EventManager_emit_strict(Entered(ws, "emit", event, strict),
                                         event, strict)
    /\ UNCHANGED <<sessionVars, codecVars>>

NextEvents == EventsOn \/ EventsOff \/ EventsEmit

SpecEvents == InitEvents /\ [][NextEvents]_vars

-----------------------------------------------------------------------------
(* SpecReg: the device registry.  The transport passes DeviceAdded and     *)
(* DeviceRemoved events to the handler, and _connect creates the devices   *)
(* of the DeviceList that answered it (a client connects and reconnects),  *)
(* in any order, for each protocol version.                                *)

\* The frames and device lists handled in one run, and the device indexes
\* 0..MaxRegIndex that the server uses.
MaxRegFrames == 3
MaxRegIndex == 1

\* The fields of a device the server announces under index k.  Under v1 the
\* device lists no counted command, under the other versions it is the test
\* device of the version.
RegDevice(ver, k) ==
    IF ver = 1
    THEN [DeviceName |-> "TestDevice 1", DeviceIndex |-> k,
          DeviceMessages |-> JDict([StopDeviceCmd |-> JDict(<<>>)])]
    ELSE [f \in DOMAIN WirePayload(ver, "DeviceAdded") \ {"Id"} |->
             IF f = "DeviceIndex" THEN k
             ELSE WirePayload(ver, "DeviceAdded")[f]]

\* The events of the registry, one to a frame.
RegFrames(ver) ==
    [k \in 1..(MaxRegIndex + 1) |->
        <<WireObject("DeviceAdded",
            [f \in DOMAIN RegDevice(ver, k - 1) \cup {"Id"} |->
                IF f = "Id" THEN 0 ELSE RegDevice(ver, k - 1)[f]])>>]
    \o [k \in 1..(MaxRegIndex + 1) |->
        <<WireObject("DeviceRemoved", [Id |-> 0, DeviceIndex |-> k - 1])>>]

\* The device lists: no device, one device, and two devices of any indexes.
RegLists(ver) ==
    <<<<WireObject("DeviceList", [Id |-> 2, Devices |-> <<>>])>>>>
    \o [k \in 1..(MaxRegIndex + 1) |->
        <<WireObject("DeviceList",
            [Id |-> 2, Devices |-> <<RegDevice(ver, k - 1)>>])>>]
    \o Flatten([a \in 1..(MaxRegIndex + 1) |->
        [b \in 1..(MaxRegIndex + 1) |->
            <<WireObject("DeviceList",
                [Id |-> 2,
                 Devices |-> <<RegDevice(ver, a - 1),
                               RegDevice(ver, b - 1)>>])>>]])

\* client.py:103: the decoder applied to each frame, for each version.
RegDecoded ==
    [ver \in ProtocolSpec |->
        [f \in 1..Len(RegFrames(ver)) |->
            Decoder_decode(RegFrames(ver)[f], ver)]]

RegListDecoded ==
    [ver \in ProtocolSpec |->
        [f \in 1..Len(RegLists(ver)) |->
            Decoder_decode(RegLists(ver)[f], ver)]]

InitReg ==
    /\ v \in ProtocolSpec
    /\ tasks = <<>>
    /\ futs = <<>>
    /\ scanning = None
    /\ devices = <<>>
    /\ devs = <<>>
    /\ pointer = None
    /\ sent = <<>>
    /\ log = [n |-> 0, frame |-> <<>>, out |-> <<>>, called |-> <<>>,
              raised |-> ""]
    /\ calls = [c \in Callers |-> IdleCall]
    /\ snaps = <<>>
    /\ CodecIdle
    /\ WsIdle

\* client.py:102-123: the transport passes an event to the handler.
RegHandleFrame ==
    /\ log.n < MaxRegFrames
    /\ \E f \in 1..Len(RegFrames(v)) :
          Handled(Client_handle_message(ClientState, v, RegDecoded[v][f]),
                  RegFrames(v)[f])
    /\ UNCHANGED <<v, pointer, sent, calls, snaps, codecVars, ws>>

\* client.py:97-100: _connect creates the devices of a DeviceList, in the
\* order of the list; log keeps the exception that ended the loop.
RegListed ==
    /\ log.n < MaxRegFrames
    /\ \E f \in 1..Len(RegLists(v)) :
          Handled(CreateDevices(ClientState, v,
                     RegListDecoded[v][f].value[1].fields.devices, 1),
                  RegLists(v)[f])
    /\ UNCHANGED <<v, pointer, sent, calls, snaps, codecVars, ws>>

NextReg == RegHandleFrame \/ RegListed

SpecReg == InitReg /\ [][NextReg]_vars

-----------------------------------------------------------------------------
(* SpecLink: the WebsocketConnector on its own.  A caller connects, sends  *)
(* and disconnects in any order; the server closes the connection and the  *)
(* receive loop ends.  ws is the connector; its log (out) keeps the errors *)
(* that connect, send and disconnect log and raise.                        *)

\* The lines the connector logs in one run of SpecLink.
MaxLinkLog == 4

\* The frame a caller sends.
LinkFrame == <<WireObject("Ping", [Id |-> 1])>>

\* websocket.py:59-61: the connection is made; 'connect' is emitted and the
\* receive loop started.
WebsocketConnector_connected(w) ==
    EventManager_emit([w EXCEPT !.connection = "open", !.loop = "running"],
                      "connect")

\* websocket.py:76-83: disconnect.  Without a connection self._connection
\* is None and close fails; the error is logged and raised as ConnectorError.
WebsocketConnector_disconnect(w) ==
    IF w.connection = "none"
    THEN ConnectorLogged(w, "error", "ConnectorError")
    ELSE EventManager_emit([w EXCEPT !.connection = "closed"], "disconnect")

InitLink ==
    /\ SessionIdle
    /\ CodecIdle
    /\ ws = WebsocketConnector_init

\* websocket.py:35-37, 59-61: connect() and the connection is made.
LinkConnected ==
    /\ Len(ws.out) < MaxLinkLog
    /\ ws' = WebsocketConnector_connected(ws)
    /\ UNCHANGED <<sessionVars, codecVars>>

\* websocket.py:35-57: connect() and the connection is not made.
LinkConnectFailed ==
    /\ Len(ws.out) < MaxLinkLog
    /\ \E e \in {"InvalidAddressError", "ServerNotFoundError",
                 "InvalidHandshakeError", "WebsocketTimeoutError",
                 "ConnectorError"} :
          ws' = ConnectorLogged(ws, "error", e)
    /\ UNCHANGED <<sessionVars, codecVars>>

\* websocket.py:85-97: send(message).
LinkSend ==
    /\ Len(ws.out) < MaxLinkLog
    /\ ws' = WebsocketConnector_send(ws, LinkFrame)
    /\ UNCHANGED <<sessionVars, codecVars>>

\* The server closes the connection.
LinkClosed ==
    /\ ws.connection = "open"
    /\ ws' = [ws EXCEPT !.connection = "closed"]
    /\ UNCHANGED <<sessionVars, codecVars>>

\* websocket.py:63-74: the connection is closed, the loop ends and emits
\* 'disconnect'.
LinkLoopEnd ==
    /\ ws.loop = "running"
    /\ ws.connection = "closed"
    /\ ws' = EventManager_emit([ws EXCEPT !.loop = "ended"], "disconnect")
    /\ UNCHANGED <<sessionVars, codecVars>>

\* websocket.py:76-83: disconnect().
LinkDisconnect ==
    /\ Len(ws.out) < MaxLinkLog
    /\ ws' = WebsocketConnector_disconnect(ws)
    /\ UNCHANGED <<sessionVars, codecVars>>

NextLink ==
    \/ LinkConnected
    \/ LinkConnectFailed
    \/ LinkSend
    \/ LinkClosed
    \/ LinkLoopEnd
    \/ LinkDisconnect

SpecLink == InitLink /\ [][NextLink]_vars

-----------------------------------------------------------------------------
(* SpecLife: a client that connects, reconnects and disconnects over a     *)
(* transport that may close.  calls.connect is the coroutine of connect or *)
(* reconnect, calls.pings the tasks that _connect created with             *)
(* create_task, in order, calls.handle the one Client._ping_loop_task      *)
(* refers to (0 for None), calls.disconnect the coroutine of disconnect.   *)
(* ws is the transport: connected, the frames it transmitted (wire), the   *)
(* ids the server answered, and the calls of connect and disconnect made   *)
(* on it (trace).  sent keeps every frame handed to its send.              *)

\* The handshakes of one run, the messages constructed in one run and the
\* frames the server sends in one run.
MaxHandshakes == 2
MaxLifeMessages == 6
MaxLifeFrames == 5

\* What the server answers to a request named name that has id i; it
\* advertises a max_ping_time of 5 ms.
LifeFrame(name, i) ==
    CASE name = "RequestServerInfo" ->
            <<WireObject("ServerInfo",
                 [WirePayload(2, "ServerInfo") EXCEPT !.Id = i,
                                                      !.MaxPingTime = 5])>>
      [] name = "RequestDeviceList" ->
            <<WireObject("DeviceList", [Id |-> i, Devices |-> <<>>])>>
      [] OTHER -> <<WireObject("Ok", [Id |-> i])>>

\* client.py:103: the decoder applied to each of these frames.
LifeDecoded ==
    [name \in {"RequestServerInfo", "RequestDeviceList", "Ping"} |->
        [i \in 1..(MaxLifeMessages + 1) |->
            Decoder_decode(LifeFrame(name, i), ProtocolSpec_last)]]

\* A transport as Client uses it: abstract.py:10 and the callback slot.
Transport_init ==
    [connected |-> FALSE, callback |-> None, wire |-> <<>>, answered |-> {},
     trace |-> <<>>]

\* websocket.py:85-97: send transmits when connected and raises
\* DisconnectedError otherwise.
Transport_send(w, frame) ==
    IF w.connected THEN [w EXCEPT !.wire = Append(@, frame)] ELSE w

Transport_raised(w) == IF w.connected THEN "" ELSE "DisconnectedError"

\* client.py:161: a ping loop task as create_task returns it.
PingTask(interval) ==
    [pc |-> "created", interval |-> interval, id |-> 0, future |-> None,
     cancel |-> FALSE, at |-> "", ended |-> "", raised |-> ""]

InitLife ==
    /\ v = ProtocolSpec_last
    /\ tasks = <<>>
    /\ futs = <<>>
    /\ scanning = None
    /\ devices = <<>>
    /\ devs = <<>>
    /\ pointer = None
    /\ sent = <<>>
    /\ log = [n |-> 0, frame |-> <<>>, out |-> <<>>, called |-> <<>>,
              raised |-> ""]
    /\ calls = [connect |-> IdleCall, runs |-> 0, pings |-> <<>>,
                handle |-> 0, disconnect |-> IdleCall]
    /\ snaps = <<>>
    /\ CodecIdle
    /\ ws = Transport_init

\* client.py:53-55: Client.send files the future of message under its id
\* and hands the frame to the transport.
LifeFiled(message) ==
    /\ pointer' = Some(message.fields.id)
    /\ futs' = Append(futs, Future("send"))
    /\ tasks' = DictSet(tasks, message.fields.id, [fut |-> Len(futs) + 1])
    /\ sent' = Append(sent, Encoder_encode(<<message>>))

\* The generator can make another message within the bound of the run.
LifeCanConstruct ==
    IF pointer = None THEN TRUE ELSE pointer.some < MaxLifeMessages

\* client.py:72-74, 76-85: connect(connector), or reconnect() on a client
\* that has a connector, up to await connector.connect().
LifeConnect ==
    /\ calls.connect.pc \in {"idle", "done"}
    /\ calls.runs < MaxHandshakes
    /\ calls' = [calls EXCEPT
                   !.runs = @ + 1,
                   !.connect = [IdleCall EXCEPT
                                   !.op = IF calls.runs = 0 THEN "connect"
                                          ELSE "reconnect",
                                   !.pc = "connecting"]]
    /\ ws' = [ws EXCEPT !.callback = [method |-> "Client._handle_message"],
                        !.trace = Append(@, "connect")]
    /\ UNCHANGED <<v, tasks, futs, scanning, devices, devs, pointer, sent, log,
                   snaps, codecVars>>

\* client.py:85-91: connector.connect() returns, _connect sends
\* RequestServerInfo and awaits the response.
LifeConnected ==
    /\ calls.connect.pc = "connecting"
    /\ LifeCanConstruct
    /\ LifeFiled(RequestServerInfo(v))
    /\ ws' = Transport_send([ws EXCEPT !.connected = TRUE],
                            Encoder_encode(<<RequestServerInfo(v)>>))
    /\ calls' = [calls EXCEPT
                   !.connect = [@ EXCEPT !.pc = "await",
                                         !.id = AutoIncrementId_call(pointer),
                                         !.future = [fut |-> Len(futs) + 1],
                                         !.local = [stage |-> "info"]]]
    /\ UNCHANGED <<v, scanning, devices, devs, log, snaps, codecVars>>

\* client.py:91-97: _connect after the response to RequestServerInfo: the
\* ping loop task is created and its handle stored over the one that was
\* there, RequestDeviceList is sent and its response awaited.  When the
\* transport refuses the frame the error leaves _connect.
LifeInfo ==
    /\ calls.connect.pc = "await"
    /\ calls.connect.local.stage = "info"
    /\ futs[calls.connect.future.fut].done
    /\ LifeCanConstruct
    /\ LifeFiled(NewMessage("RequestDeviceList"))
    /\ ws' = Transport_send(ws, Encoder_encode(<<NewMessage("RequestDeviceList")>>))
    /\ calls' =
          [calls EXCEPT
             !.pings =
                IF futs[calls.connect.future.fut].result.fields.max_ping_time > 0
                THEN Append(@, PingTask(ping_interval(
                        futs[calls.connect.future.fut].result.fields.max_ping_time)))
                ELSE @,
             !.handle =
                IF futs[calls.connect.future.fut].result.fields.max_ping_time > 0
                THEN Len(calls.pings) + 1
                ELSE @,
             !.connect =
                IF Transport_raised(ws) = ""
                THEN [@ EXCEPT !.id = AutoIncrementId_call(pointer),
                               !.future = [fut |-> Len(futs) + 1],
                               !.local = [stage |-> "list"]]
                ELSE [@ EXCEPT !.pc = "done",
                               !.id = AutoIncrementId_call(pointer),
                               !.raised = Transport_raised(ws)]]
    /\ UNCHANGED <<v, scanning, devices, devs, log, snaps, codecVars>>

\* client.py:97-100: _connect after the response to RequestDeviceList.
LifeList ==
    /\ calls.connect.pc = "await"
    /\ calls.connect.local.stage = "list"
    /\ futs[calls.connect.future.fut].done
    /\ calls' = [calls EXCEPT !.connect.pc = "done"]
    /\ UNCHANGED <<v, tasks, futs, scanning, devices, devs, pointer, sent, log,
                   snaps, codecVars, ws>>

\* client.py:160-163 and 53-56: a ping loop task takes its first step, or
\* its sleep is over: it constructs a Ping, Client.send files its future and
\* hands the frame to the transport.  When the transport refuses the frame
\* the error is no CancelledError and ends the task.
LifePing(t) ==
    /\ calls.pings[t].pc \in {"created", "sleep"}
    /\ ~calls.pings[t].cancel
    /\ LifeCanConstruct
    /\ LifeFiled(NewMessage("Ping"))
    /\ ws' = Transport_send(ws, Encoder_encode(<<NewMessage("Ping")>>))
    /\ calls' = [calls EXCEPT
                   !.pings[t] =
                      IF Transport_raised(ws) = ""
                      THEN [@ EXCEPT !.pc = "await",
                                     !.id = AutoIncrementId_call(pointer),
                                     !.future = [fut |-> Len(futs) + 1]]
                      ELSE [@ EXCEPT !.pc = "done",
                                     !.id = AutoIncrementId_call(pointer),
                                     !.ended = "raised",
                                     !.raised = Transport_raised(ws)]]
    /\ UNCHANGED <<v, scanning, devices, devs, log, snaps, codecVars>>

\* client.py:56-58, 163-165: the response is there and is dropped; the loop
\* sleeps for interval.
LifePingResume(t) ==
    /\ calls.pings[t].pc = "await"
    /\ ~calls.pings[t].cancel
    /\ futs[calls.pings[t].future.fut].done
    /\ calls' = [calls EXCEPT !.pings[t].pc = "sleep"]
    /\ UNCHANGED <<v, tasks, futs, scanning, devices, devs, pointer, sent, log,
                   snaps, codecVars, ws>>

\* client.py:161-167: a cancellation reaches the task.  At an await inside
\* the try the CancelledError is caught and the coroutine returns; a task
\* that has not run its first step ends cancelled.  The future the coroutine
\* awaited is cancelled and stays in Client._tasks.
LifePingCancelled(t) ==
    /\ calls.pings[t].cancel
    /\ calls.pings[t].ended = ""
    /\ calls' = [calls EXCEPT
                   !.pings[t] =
                      [@ EXCEPT !.cancel = FALSE,
                                !.at = calls.pings[t].pc,
                                !.pc = "done",
                                !.ended = IF calls.pings[t].pc = "created"
                                          THEN "cancelled" ELSE "returned"]]
    /\ futs' = IF calls.pings[t].pc = "await"
               THEN [futs EXCEPT ![calls.pings[t].future.fut].done = TRUE]
               ELSE futs
    /\ UNCHANGED <<v, tasks, scanning, devices, devs, pointer, sent, log,
                   snaps, codecVars, ws>>

\* The server answers a request it received and has not answered, and the
\* transport passes the answer to Client._handle_message (client.py:102-158).
LifeAnswer ==
    /\ ws.connected
    /\ ws.callback # None
    /\ log.n < MaxLifeFrames
    /\ \E k \in 1..Len(ws.wire) :
          /\ ws.wire[k][1][1][2].Id \notin ws.answered
          /\ Handled(Client_handle_message(ClientState, v,
                        LifeDecoded[ws.wire[k][1][1][1]][ws.wire[k][1][1][2].Id]),
                     LifeFrame(ws.wire[k][1][1][1], ws.wire[k][1][1][2].Id))
          /\ ws' = [ws EXCEPT !.answered = @ \cup {ws.wire[k][1][1][2].Id}]
    /\ UNCHANGED <<v, pointer, sent, calls, snaps, codecVars>>

\* The connection is lost: the transport is no longer connected.
LifeLost ==
    /\ ws.connected
    /\ ws' = [ws EXCEPT !.connected = FALSE]
    /\ UNCHANGED <<sessionVars, codecVars>>

\* client.py:169-174: Client.disconnect up to its first await: of the task
\* it cancelled, or of connector.disconnect().  Task.cancel on a task that
\* has ended does nothing.  The await holds the task the handle referred to
\* when disconnect was called (local.task).
LifeDisconnect ==
    /\ calls.disconnect.pc = "idle"
    /\ ws.callback # None
    /\ IF calls.handle # 0
       THEN /\ calls' = [calls EXCEPT
                           !.disconnect = [IdleCall EXCEPT
                                              !.op = "disconnect",
                                              !.pc = "await_task",
                                              !.local = [task |-> calls.handle]],
                           !.pings[calls.handle].cancel =
                               calls.pings[calls.handle].ended = ""]
            /\ ws' = ws
       ELSE /\ calls' = [calls EXCEPT
                           !.disconnect = [IdleCall EXCEPT !.op = "disconnect",
                                                           !.pc = "disconnecting"]]
            /\ ws' = [ws EXCEPT !.trace = Append(@, "disconnect")]
    /\ UNCHANGED <<v, tasks, futs, scanning, devices, devs, pointer, sent, log,
                   snaps, codecVars>>

\* client.py:172: 'await self._ping_loop_task' on a task that has ended: a
\* cancelled task raises CancelledError, a task that ended with an exception
\* raises that exception, a task that returned gives None.
LifeAwaited(task) ==
    CASE task.ended = "cancelled" -> "CancelledError"
      [] task.ended = "raised" -> task.raised
      [] OTHER -> ""

\* client.py:172-174: the awaited task has ended.  When the await raises,
\* disconnect ends there; otherwise it drops the handle and awaits
\* connector.disconnect().
LifeDisconnectResume ==
    /\ calls.disconnect.pc = "await_task"
    /\ calls.pings[calls.disconnect.local.task].ended # ""
    /\ IF LifeAwaited(calls.pings[calls.disconnect.local.task]) # ""
       THEN /\ calls' = [calls EXCEPT
                           !.disconnect.pc = "done",
                           !.disconnect.raised =
                               LifeAwaited(calls.pings[calls.disconnect.local.task])]
            /\ ws' = ws
       ELSE /\ calls' = [calls EXCEPT !.disconnect.pc = "disconnecting",
                                      !.handle = 0]
            /\ ws' = [ws EXCEPT !.trace = Append(@, "disconnect")]
    /\ UNCHANGED <<v, tasks, futs, scanning, devices, devs, pointer, sent, log,
                   snaps, codecVars>>

\* client.py:174: connector.disconnect() returns, and disconnect with it.
LifeDisconnected ==
    /\ calls.disconnect.pc = "disconnecting"
    /\ ws' = [ws EXCEPT !.connected = FALSE]
    /\ calls' = [calls EXCEPT !.disconnect.pc = "done"]
    /\ UNCHANGED <<v, tasks, futs, scanning, devices, devs, pointer, sent, log,
                   snaps, codecVars>>

NextLife ==
    \/ LifeConnect
    \/ LifeConnected
    \/ LifeInfo
    \/ LifeList
    \/ \E t \in 1..Len(calls.pings) : LifePing(t)
    \/ \E t \in 1..Len(calls.pings) : LifePingResume(t)
    \/ \E t \in 1..Len(calls.pings) : LifePingCancelled(t)
    \/ LifeAnswer
    \/ LifeLost
    \/ LifeDisconnect
    \/ LifeDisconnectResume
    \/ LifeDisconnected

SpecLife == InitLife /\ [][NextLife]_vars

-----------------------------------------------------------------------------
(* The session claims, over Spec.                                          *)

\* The future that Client.send of caller c awaits.
SendFuture(c) == futs[calls[c].future.fut]

\* The frames handed to the connector that carry a message named name.
SentNamed(name) == {j \in 1..Len(sent) : sent[j][1][1][1] = name}

\* The step handled a frame (only the handler writes the log).
FrameHandled == log'.n = log.n + 1

\* The object is a response (Ok or Error) with id i.
IsResponse(object, i) ==
    /\ object[1][1] \in {"Ok", "Error"}
    /\ object[1][2].Id = i

UnexpectedId(i) ==
    [level |-> "error", what |-> "Message with unexpected Id received", arg |-> i]

\* C1: for any interleaving of calls to Client.send with distinct ids and of
\* the responses carrying those ids, in any order and grouping into frames,
\* each caller is resumed exactly once, with the Incoming whose id is the id
\* of its own message: a future of send is fulfilled only by a message of
\* its caller's id, the caller can go on as soon as its entry has left the
\* pending table, it goes on once, and what send returns carries its id.
C1_OwnResponse ==
    \A c \in Callers :
        /\ calls[c].resumes <= 1
        /\ calls[c].pc = "await" => calls[c].resumes = 0
        /\ calls[c].id # 0 =>
              /\ calls[c].pc = "done" => calls[c].resumes = 1
              /\ \A d \in Callers : (d # c /\ calls[d].id # 0)
                                       => calls[d].id # calls[c].id
              /\ SendFuture(c).done <=> calls[c].id \notin DOMAIN tasks
              /\ SendFuture(c).done =>
                    /\ SendFuture(c).result # None
                    /\ SendFuture(c).result.fields.id = calls[c].id
              /\ (calls[c].pc = "done" /\ calls[c].op = "send") =>
                    /\ calls[c].ret = SendFuture(c).result
                    /\ calls[c].ret.fields.id = calls[c].id

\* C1 witness: two callers of send, ids 1 and 2, both resumed with their
\* own response after the responses came in one frame, in the other order.
C1_Witness ==
    /\ \A c \in {1, 2} :
          /\ calls[c].op = "send"
          /\ calls[c].pc = "done"
          /\ calls[c].id = c
          /\ calls[c].resumes = 1
          /\ calls[c].ret.cls = Class(0, "Ok")
          /\ calls[c].ret.fields.id = c
    /\ log.frame = <<WireObject("Ok", [Id |-> 2]), WireObject("Ok", [Id |-> 1])>>

\* C2: when the handler handles a response with id i, i not 0, that is in the
\* pending table, the same step fulfils the waiter of that entry with the
\* message and removes the entry, and touches no other future or entry; a
\* response with an id that has no entry (so also a second one with the same
\* id, in the same frame or a later one) changes no future and no entry,
\* resumes nobody and is logged as a message with unexpected id.
C2_OneShot ==
    [][(FrameHandled /\ IsResponse(log'.frame[1], log'.frame[1][1][2].Id)
          /\ log'.frame[1][1][2].Id # 0
          /\ (Len(log'.frame) = 2 => log'.frame[2] = log'.frame[1]))
        => /\ calls' = calls
           /\ log'.raised = ""
           /\ IF log'.frame[1][1][2].Id \in DOMAIN tasks
              THEN /\ DOMAIN tasks' = DOMAIN tasks \ {log'.frame[1][1][2].Id}
                   /\ \A j \in DOMAIN tasks' : tasks'[j] = tasks[j]
                   /\ \A j \in 1..Len(futs) :
                         IF j = tasks[log'.frame[1][1][2].Id].fut
                         THEN /\ ~futs[j].done
                              /\ futs'[j].done
                              /\ futs'[j].result.cls = Class(0, log'.frame[1][1][1])
                              /\ futs'[j].result.fields.id = log'.frame[1][1][2].Id
                         ELSE futs'[j] = futs[j]
                   /\ log'.out = IF Len(log'.frame) = 1 THEN <<>>
                                 ELSE <<UnexpectedId(log'.frame[1][1][2].Id)>>
              ELSE /\ tasks' = tasks
                   /\ futs' = futs
                   /\ log'.out = [j \in 1..Len(log'.frame) |->
                                     UnexpectedId(log'.frame[1][1][2].Id)]
      ]_vars

\* C2 witness: the response Ok 1 fulfilled the waiter of id 1 in an earlier
\* frame, and the last frame, again Ok 1, found no entry and was logged.
C2_Witness ==
    /\ log.n = 2
    /\ log.frame = <<WireObject("Ok", [Id |-> 1])>>
    /\ log.out = <<UnexpectedId(1)>>
    /\ 1 \notin DOMAIN tasks
    /\ \E c \in Callers :
          /\ calls[c].id = 1
          /\ SendFuture(c).done
          /\ SendFuture(c).result.fields.id = 1

\* C3: every frame that the WebSocket transport receives while connected is
\* passed to the callback that _connect installed, Client._handle_message,
\* so that the caller waiting in Client.send for a response that the receive
\* loop has taken from the connection is resumed: the future of its request
\* is fulfilled and the entry has left the pending table.
C3_ReceivedReachesHandler ==
    \A c \in Callers :
        (/\ calls[c].pc = "await"
         /\ ws.callback # None
         /\ \E j \in 1..Len(ws.received) :
               ws.received[j][1][1][2].Id = calls[c].id)
            => /\ SendFuture(c).done
               /\ calls[c].id \notin DOMAIN tasks

\* C7: scan idempotence.  A scan future in Client._scanning is pending; a
\* call to start_scanning made while there is one returns that future at
\* once and hands nothing to the connector, whether the call that created
\* the future has returned or not; and as many StartScanning were handed to
\* the connector as scan futures were created.
C7_ScanIdempotent ==
    [][/\ scanning' # None => ~futs'[scanning'.fut].done
       /\ Cardinality(SentNamed("StartScanning"))
            = Cardinality({j \in 1..Len(futs) : futs[j].site = "start_scanning"})
       /\ \A c \in Callers :
             (/\ calls[c].pc = "idle"
              /\ calls'[c].op = "start_scanning"
              /\ scanning # None)
                => /\ calls'[c].pc = "done"
                   /\ calls'[c].raised = ""
                   /\ calls'[c].ret = scanning
                   /\ scanning' = scanning
                   /\ sent' = sent
                   /\ futs' = futs
      ]_vars

\* C7 witness: one caller started the scan and awaits the response to its
\* StartScanning; another called start_scanning meanwhile and got the same
\* future without awaiting; one StartScanning was sent.
C7_Witness ==
    \E c \in Callers : \E d \in Callers :
        /\ calls[c].op = "start_scanning"
        /\ calls[c].pc = "await"
        /\ calls[d].op = "start_scanning"
        /\ calls[d].pc = "done"
        /\ calls[d].resumes = 0
        /\ scanning # None
        /\ calls[d].ret = scanning
        /\ calls[d].ret = calls[c].local
        /\ Cardinality(SentNamed("StartScanning")) = 1

\* C8: every call to start_scanning that completes returns a scan future,
\* never an absent handle: the future of the scan it joined, or of the scan
\* it started, also when ScanningFinished is handled before the caller is
\* resumed.
C8_ReturnsScanFuture ==
    \A c \in Callers :
        (calls[c].op = "start_scanning" /\ calls[c].pc = "done")
            => /\ calls[c].ret # None
               /\ calls[c].ret = IF calls[c].entry.scanning # None
                                 THEN calls[c].entry.scanning
                                 ELSE calls[c].local

\* C9: when a scan is pending, stop_scanning hands one StopScanning to the
\* connector and returns the scan future that was in Client._scanning when it
\* was called, also when ScanningFinished fulfilled and cleared that future
\* before the response to StopScanning resumed the caller.
C9_StopReturnsSnapshot ==
    \A c \in Callers :
        (calls[c].op = "stop_scanning" /\ calls[c].entry.scanning # None)
            => /\ calls[c].raised = ""
               /\ calls[c].pc \in {"await", "done"}
               /\ Cardinality({j \in 1..Len(sent) :
                     sent[j] = <<WireObject("StopScanning",
                                            [Id |-> calls[c].id])>>}) = 1
               /\ \A j \in 1..Len(sent) :
                     sent[j][1][1][2].Id = calls[c].id
                        => sent[j][1][1][1] = "StopScanning"
               /\ calls[c].pc = "done"
                     => /\ calls[c].ret = calls[c].entry.scanning
                        /\ futs[calls[c].ret.fut].site = "start_scanning"

\* C9 witness: the last frame brought ScanningFinished and, after it, the
\* response to the StopScanning of a caller that has since returned: the
\* scan future was fulfilled and cleared before the caller went on, and the
\* caller returned it.
C9_Witness ==
    \E c \in Callers :
        /\ calls[c].op = "stop_scanning"
        /\ calls[c].pc = "done"
        /\ calls[c].resumes = 1
        /\ log.frame = <<WireObject("ScanningFinished", [Id |-> 0]),
                         WireObject("Ok", [Id |-> calls[c].id])>>
        /\ scanning = None
        /\ calls[c].ret # None
        /\ futs[calls[c].ret.fut].done
        /\ futs[calls[c].ret.fut].result = [registry |-> TRUE]

\* C10: after a server initiated DeviceRemoved for index k has been handled,
\* k is not a key of the registry, and in every snapshot that Client.devices
\* returned before and that contains k, the Device under k has removed = true.
C10_SnapshotsSeeRemoval ==
    \A k \in 0..MaxDeviceIndex :
        (/\ log.n > 0
         /\ log.raised = ""
         /\ log.frame[Len(log.frame)]
              = WireObject("DeviceRemoved", [Id |-> 0, DeviceIndex |-> k]))
            => /\ k \notin DOMAIN devices
               /\ \A j \in 1..Len(snaps) :
                     k \in DOMAIN snaps[j] => devs[snaps[j][k].dev].removed

-----------------------------------------------------------------------------
(* The codec claims, over SpecCodec.                                       *)

\* The frame that was decoded came from Encoder.encode of a drawn message.
RoundTripDone == cout.stage = "decoded" /\ cin.msg # None

\* A drawn frame was decoded.
FrameDecoded == cout.stage = "decoded" /\ cin.msg = None

\* The name of the j-th object of the decoded frame (its first key).
NameAt(j) == cout.frame[j][1][1]

\* The versions at or below V whose module defines a class named N.
DefinedAtOrBelow(N, V) ==
    {i \in 0..V : N \in Incoming_registry(i) \cup OutgoingClasses(i)}
RegisteredAtOrBelow(N, V) == {i \in 0..V : N \in Incoming_registry(i)}

Greatest(S) == CHOOSE i \in S : \A j \in S : j <= i

C6_UnsupportedRefused ==
    FrameDecoded
        => /\ \A j \in 1..Len(cout.frame) :
                 NameAt(j) \notin Incoming_messages(cin.ver)
                    => /\ cout.result.raised # ""
                       /\ cout.result.value = None
                       /\ Decoder_decode(SubSeq(cout.frame, 1, j - 1),
                                         cin.ver).raised = ""
                            => cout.result.raised = UnsupportedMessage
           /\ \A N \in {"BatteryLevelReading", "RSSILevelReading"} :
                 (Len(cout.frame) = 1 /\ NameAt(1) = N)
                    => /\ cin.ver = 2
                            => /\ cout.result.raised = ""
                               /\ cout.result.value[1].cls = Class(2, N)
                       /\ cin.ver = 3
                            => cout.result = Raise(UnsupportedMessage)

\* C6 witness: under v3 a frame of an Ok and a BatteryLevelReading, which v2
\* registers, was refused.
C6_Witness ==
    /\ FrameDecoded
    /\ cin.ver = 3
    /\ Len(cout.frame) = 2
    /\ NameAt(1) = "Ok"
    /\ NameAt(2) = "BatteryLevelReading"
    /\ 2 \in RegisteredAtOrBelow("BatteryLevelReading", 3)
    /\ cout.result = Raise(UnsupportedMessage)

-----------------------------------------------------------------------------
(* The device claims, over SpecDev.                                        *)

\* The operation of caller c went through Device.send.
ThroughSend(c) == calls[c].op \in DeviceOps /\ calls[c].local # None

\* The response the operation of caller c was resumed with.
ResponseOf(c) == futs[calls[c].future.fut].result

\* The part (actuator or sensor) the operation of caller c was called on.
PartOf(c) == devs[calls[c].local.dev][calls[c].local.list][calls[c].local.k]

\* C11: after a Device has been removed by DeviceRemoved, every operation
\* called through a retained reference to it or to one of its actuators or
\* sensors (stop, command, read, subscribe, unsubscribe) fails with an error
\* and hands no command for that device to the transport: an operation
\* called on a Device whose removed flag was set never creates a request and
\* ends raised.
C11_RemovedDeviceFails ==
    \A c \in DevCallers :
        (ThroughSend(c) /\ calls[c].local.removed)
            => /\ calls[c].pc = "done"
               /\ calls[c].raised # ""
               /\ calls[c].id = 0

\* The five server error kinds, by ErrorCode.
ServerErrorKinds ==
    <<"UnknownServerError", "InitServerError", "PingServerError",
      "MessageServerError", "DeviceServerError">>

\* C17: for Device.stop and for the command of every actuator kind, a
\* response Ok makes the call return normally; a response Error raises the
\* server error kind of its ErrorCode (0 UnknownServer, 1 InitServer, 2
\* PingServer, 3 MessageServer, 4 DeviceServer, pairwise distinct) carrying
\* the server's message; any other response raises UnexpectedMessageError.
C17_CommandOutcome ==
    \A c \in DevCallers :
        (ThroughSend(c) /\ calls[c].op \in {"stop", "command"}
                        /\ calls[c].pc = "done")
            => /\ ResponseOf(c).cls = Class(0, "Ok")
                    => calls[c].raised = "" /\ calls[c].ret = None
               /\ ResponseOf(c).cls = Class(0, "Error")
                    => /\ ResponseOf(c).fields.error_code \in 0..4
                       /\ calls[c].raised =
                             ServerErrorKinds[ResponseOf(c).fields.error_code + 1]
                       /\ calls[c].ret =
                             <<ResponseOf(c).fields.error_code,
                               ResponseOf(c).fields.error_message>>
               /\ ResponseOf(c).cls \notin {Class(0, "Ok"), Class(0, "Error")}
                    => calls[c].raised = "UnexpectedMessageError"

\* C17 witness: the command of a ScalarActuator was answered with an Error
\* of code 4 and raised DeviceServerError with the server's message.
C17_Witness ==
    \E c \in DevCallers :
        /\ ThroughSend(c)
        /\ calls[c].op = "command"
        /\ calls[c].pc = "done"
        /\ PartOf(c).kind = "ScalarActuator"
        /\ ResponseOf(c).cls = Class(0, "Error")
        /\ ResponseOf(c).fields.error_code = 4
        /\ calls[c].raised = "DeviceServerError"
        /\ calls[c].ret = <<4, "Device not found.">>

\* The frames of the server that hold pushed SensorReadings only.
ReadingFrames ==
    {f \in 1..Len(DevFrames(3)) :
        \A j \in 1..Len(DevFrames(3)[f]) :
            /\ DevFrames(3)[f][j][1][1] = "SensorReading"
            /\ DevFrames(3)[f][j][1][2].Id = 0}

\* The sensors of the device registered under index d.
SensorsOf(d) == devs[devices[d].dev].sensors

\* The reading names a registered device and a slot of its sensor list that
\* holds a SubscribableSensor.
NamesSubscribable(object) ==
    /\ object[1][2].DeviceIndex \in DOMAIN devices
    /\ object[1][2].SensorIndex \in 0..(Len(SensorsOf(object[1][2].DeviceIndex)) - 1)
    /\ SensorsOf(object[1][2].DeviceIndex)[object[1][2].SensorIndex + 1].kind
          = "SubscribableSensor"

\* The calls of callbacks the claim expects of a frame of readings.
ExpectedCalls(hits) ==
    [j \in 1..Len(hits) |->
        [callback |-> SensorsOf(hits[j][1][2].DeviceIndex)
                         [hits[j][1][2].SensorIndex + 1].callback,
         data |-> hits[j][1][2].Data]]

\* The handler ended in r on a frame of readings as the claim expects.
DispatchedAsClaimed(r, frame) ==
    /\ r.raised = ""
    /\ r.called = ExpectedCalls(SelectSeq(frame, NamesSubscribable))
    /\ Len(r.out) = Len(frame) - Len(r.called)
    /\ \A j \in 1..Len(r.out) : r.out[j].level = "error"

\* C18: on a server-initiated SensorReading (Id 0) for device index d and
\* sensor index s: if d is in the registry and slot s of that device's
\* sensor list is a SubscribableSensor, the slot's current callback is
\* invoked exactly once with the reading's data; if d is unknown, s is out
\* of range, or the slot is not subscribable, no callback is invoked, the
\* mismatch is logged and routing continues with the next message of the
\* frame.  Stated of the handler in every state the v3 client reaches, for
\* every frame of readings the server may send.
C18_ReadingDispatch ==
    v = 3 =>
        \A f \in ReadingFrames :
            DispatchedAsClaimed(
                Client_handle_message(ClientState, 3, DevDecoded[3][f]),
                DevFrames(3)[f])

\* The payloads of the frames handed to the connector under the id of the
\* request of caller c, each with the name of its message.
SentBy(c) ==
    {sent[j][1][1] : j \in {i \in 1..Len(sent) :
                              sent[i][1][1][2].Id = calls[c].id}}

\* C19: SubscribableSensor.subscribe sends a SensorSubscribeCmd and
\* SubscribableSensor.unsubscribe sends a SensorUnsubscribeCmd, each carrying
\* the device index, the sensor index and the sensor type of the sensor.
C19_SubscribeWire ==
    \A c \in DevCallers :
        (ThroughSend(c) /\ calls[c].op \in {"subscribe", "unsubscribe"})
            => SentBy(c) =
                  {<<IF calls[c].op = "subscribe" THEN "SensorSubscribeCmd"
                     ELSE "SensorUnsubscribeCmd",
                     [Id |-> calls[c].id,
                      DeviceIndex |-> devs[calls[c].local.dev].index,
                      SensorIndex |-> PartOf(c).index,
                      SensorType |-> PartOf(c).type.some]>>}

\* The callbacks of the sensors of every Device, in the state and the next.
Callbacks ==
    [d \in 1..Len(devs) |->
        [k \in 1..Len(devs[d].sensors) |->
            IF devs[d].sensors[k].kind = "SubscribableSensor"
            THEN devs[d].sensors[k].callback ELSE ""]]
CallbacksNext ==
    [d \in 1..Len(devs) |->
        [k \in 1..Len(devs[d].sensors) |->
            IF devs'[d].sensors[k].kind = "SubscribableSensor"
            THEN devs'[d].sensors[k].callback ELSE ""]]

\* The step resumes caller c from the await of its request.
Resumes(c) == calls[c].pc = "await" /\ calls'[c].pc = "done"

\* C20: a SubscribableSensor's callback changes only when a subscribe or
\* unsubscribe request is answered with Ok: subscribe(cb) answered with Ok
\* installs cb, unsubscribe answered with Ok restores the no-op callback,
\* and an Error or any other response raises and leaves the callback
\* unchanged.  Stated of every step: no step but the resumption of a
\* subscribe or unsubscribe on an Ok changes a callback of a Device that
\* exists, and that one changes the callback of its own sensor only.
C20_CallbackOnlyOnOk ==
    [][/\ Len(devs') >= Len(devs)
       /\ \A d \in 1..Len(devs) : Len(devs'[d].sensors) = Len(devs[d].sensors)
       /\ IF \E c \in DevCallers :
                /\ Resumes(c)
                /\ calls[c].op \in {"subscribe", "unsubscribe"}
                /\ ResponseOf(c).cls = Class(0, "Ok")
          THEN \A c \in DevCallers :
                  Resumes(c) =>
                     /\ calls'[c].raised = ""
                     /\ CallbacksNext =
                           [Callbacks EXCEPT
                               ![calls[c].local.dev][calls[c].local.k] =
                                  IF calls[c].op = "subscribe"
                                  THEN calls[c].local.cb
                                  ELSE "_no_callback"]
          ELSE /\ CallbacksNext = Callbacks
               /\ \A c \in DevCallers :
                     (Resumes(c) /\ calls[c].op \in {"subscribe", "unsubscribe"})
                        => calls'[c].raised # ""
      ]_vars

\* C20 witness: a sensor holds the callback a subscribe installed on Ok, and
\* the unsubscribe that came after was answered with an Error, raised and
\* left it there.
C20_Witness ==
    \E c \in DevCallers :
        /\ ThroughSend(c)
        /\ calls[c].op = "unsubscribe"
        /\ calls[c].pc = "done"
        /\ ResponseOf(c).cls = Class(0, "Error")
        /\ calls[c].raised = "DeviceServerError"
        /\ PartOf(c).callback = "on_data"

-----------------------------------------------------------------------------
(* Error responses, over Spec.                                             *)

\* C16: for every operation that awaits a response (the handshake requests,
\* Ping, start_scanning, stop_scanning, stop_all, and all device, actuator
\* and sensor operations), a server Error response carrying the request's id
\* surfaces to the awaiting caller as the typed server error of its
\* ErrorCode; the operation never returns as if it had succeeded and never
\* fails with an unrelated error.  Stated of the callers of stop_all,
\* start_scanning and stop_scanning: one that was resumed with an Error has
\* raised the server error kind of its code.
C16_ErrorSurfaces ==
    \A c \in Callers :
        (calls[c].pc = "done" /\ calls[c].id # 0
                              /\ SendFuture(c).result.cls = Class(0, "Error"))
            => calls[c].raised =
                  ServerErrorKinds[SendFuture(c).result.fields.error_code + 1]

-----------------------------------------------------------------------------
(* The connection claims, over SpecConn.                                   *)

\* The name and payload of the j-th frame handed to the connector.
SentObject(j) == sent[j][1][1]

\* The response to the first request of the handshake, once it is there:
\* the result of the first future Client.send created.
InfoResponse == futs[1].result

\* What holds of the handshake in every state: the callback is set before
\* connector.connect is called, the first frame is the RequestServerInfo of
\* the version, RequestDeviceList is sent after the first request has left
\* the pending table, and connect has returned only with the response to
\* RequestDeviceList.
HandshakeInOrder ==
    /\ \A j \in 1..Len(ws.trace) :
          ws.trace[j] = "connect"
             => /\ \E i \in 1..(j - 1) : ws.trace[i] = "callback"
                /\ ws.callback = [method |-> "Client._handle_message"]
    /\ Len(sent) >= 1
          => SentObject(1) =
                <<"RequestServerInfo",
                  IF v = 0 THEN [Id |-> 1, ClientName |-> "Test Client"]
                  ELSE [Id |-> 1, ClientName |-> "Test Client",
                        MessageVersion |-> v]>>
    /\ \A j \in SentNamed("RequestDeviceList") :
          /\ j > 1
          /\ SentObject(1)[2].Id \notin DOMAIN tasks
          /\ futs[1].done
          /\ InfoResponse.fields.id = SentObject(1)[2].Id
    /\ (calls.connect.pc = "done" /\ calls.connect.raised = "")
          => /\ SentNamed("RequestDeviceList") # {}
             /\ calls.connect.id \notin DOMAIN tasks
             /\ futs[calls.connect.future.fut].result.cls
                   \in {Class(i, "DeviceList") : i \in ProtocolSpec}
             /\ futs[calls.connect.future.fut].result.fields.id
                   = calls.connect.id

\* The indexes of the devices of the DeviceList that connect was resumed with.
ListedIndexes ==
    {futs[calls.connect.future.fut].result.fields.devices[n].device_index :
        n \in 1..Len(futs[calls.connect.future.fut].result.fields.devices)}

\* C12: during connect the receive callback is installed before
\* transport.connect is called; the first frame sent is RequestServerInfo
\* (without MessageVersion when V = v0, otherwise carrying MessageVersion =
\* V); RequestDeviceList is sent only after the response to
\* RequestServerInfo has been received; and connect returns only after the
\* DeviceList response has been handled and one Device per listed
\* descriptor is in the registry under its device index.
C12_ConnectOrder ==
    [][/\ HandshakeInOrder'
       /\ (calls.connect.pc = "await" /\ calls'.connect.pc = "done"
                                      /\ calls'.connect.raised = "")
             => /\ DOMAIN devices' = DOMAIN devices \cup ListedIndexes
                /\ Cardinality(ListedIndexes) =
                      Len(futs[calls.connect.future.fut].result.fields.devices)
                /\ \A i \in ListedIndexes :
                      /\ devs'[devices'[i].dev].index = i
                      /\ ~devs'[devices'[i].dev].removed
      ]_vars

\* C12 witness: the v3 client has connected; it sent RequestServerInfo with
\* MessageVersion 3, then RequestDeviceList, and holds the two devices of
\* the list under their indexes.
C12_Witness ==
    /\ v = 3
    /\ calls.connect.pc = "done"
    /\ calls.connect.raised = ""
    /\ SentObject(1)[1] = "RequestServerInfo"
    /\ SentObject(1)[2].MessageVersion = 3
    /\ SentObject(2)[1] = "RequestDeviceList"
    /\ DOMAIN devices = {0, 1}
    /\ devs[devices[1].dev].index = 1

\* The handshake has gone past the response to RequestServerInfo.
PastServerInfo ==
    IF calls.connect.local = None THEN FALSE
    ELSE calls.connect.local.stage = "list"

\* C13: after the handshake a ping loop is running if and only if the
\* ServerInfo response advertised max_ping_time > 0, and its interval
\* between Pings is max_ping_time / 2 milliseconds; when max_ping_time = 0
\* the client never sends a Ping.  The interval is kept in microseconds.
C13_PingLoop ==
    /\ ~PastServerInfo => calls.ping.pc = "none"
    /\ PastServerInfo =>
          /\ calls.ping.pc # "none" <=> InfoResponse.fields.max_ping_time > 0
          /\ (InfoResponse.fields.max_ping_time > 0
                 /\ calls.disconnect.pc = "idle")
                => calls.ping.pc \in {"created", "send", "await", "sleep"}
          /\ calls.ping.pc # "none"
                => 2 * calls.ping.interval
                      = 1000 * InfoResponse.fields.max_ping_time
    /\ calls.ping.pc = "none" => SentNamed("Ping") = {}

\* C13 witness: the server advertised 5 ms; the loop has sent a Ping, got
\* its response and sleeps for 2500 microseconds.
C13_Witness ==
    /\ PastServerInfo
    /\ InfoResponse.fields.max_ping_time = 5
    /\ calls.ping.pc = "sleep"
    /\ calls.ping.interval = 2500
    /\ SentNamed("Ping") # {}

\* The step calls connector.disconnect().
TransportDisconnect ==
    /\ Len(ws'.trace) = Len(ws.trace) + 1
    /\ ws'.trace[Len(ws'.trace)] = "disconnect"

\* C14: disconnect cancels the ping loop, if one was started, and waits
\* until it has terminated before it calls transport.disconnect; cancelling
\* the loop at any of its suspension points (handing the Ping to the
\* transport, awaiting the Ping response, sleeping) makes it exit without
\* propagating an error to disconnect.
C14_DisconnectOrder ==
    [][/\ TransportDisconnect
             => (calls.ping.held
                    => calls.ping.pc = "done" /\ calls.ping.ended # "")
       /\ (calls.disconnect.pc = "idle" /\ calls'.disconnect.pc # "idle"
              /\ calls.ping.held /\ calls.ping.ended = "")
             => /\ calls'.ping.cancel
                /\ calls'.disconnect.pc = "await_task"
                /\ ws' = ws
       /\ (calls.ping.cancel /\ ~calls'.ping.cancel
              /\ calls.ping.pc \in {"send", "await", "sleep"})
             => /\ calls'.ping.pc = "done"
                /\ calls'.ping.ended = "returned"
       /\ calls'.ping.at \in {"send", "await", "sleep"}
             => calls'.disconnect.raised = ""
      ]_vars

\* C14 witness: the loop was cancelled while it awaited the response to its
\* Ping, and disconnect has gone on to disconnect the transport.
C14_Witness ==
    /\ calls.ping.at = "await"
    /\ calls.ping.ended = "returned"
    /\ calls.disconnect.pc = "done"
    /\ calls.disconnect.raised = ""
    /\ ws.trace[Len(ws.trace)] = "disconnect"
    /\ ~ws.connected

\* C15: every request that is pending when disconnect is called is resolved
\* with a disconnection error: after disconnect completes no caller remains
\* suspended in Client.send and the pending table is empty.  Stated of the
\* requests that were in the table when disconnect was called.
C15_PendingResolved ==
    (calls.disconnect.pc = "done" /\ calls.disconnect.raised = "")
        => /\ calls.disconnect.entry.pending \cap DOMAIN tasks = {}
           /\ \A c \in {"connect", "stop_all"} :
                 (calls[c].pc = "await"
                     /\ calls[c].id \in calls.disconnect.entry.pending)
                    => futs[calls[c].future.fut].done


-----------------------------------------------------------------------------
(* The construction claims, over SpecBuild.                                *)

\* The frame was handled and left one Device in the registry.
Built == log.n = 1 /\ log.raised = "" /\ Len(devs) = 1

\* The list the drawn map gives under name, empty when it gives none.
WireList(name) ==
    IF name \in DOMAIN cin.messages.dict THEN cin.messages.dict[name].list
    ELSE <<>>

\* The pair that names a sensor in a capability entry.
SensorPair(a) == <<a.dict.FeatureDescriptor, a.dict.SensorType>>

\* The entries of SensorSubscribeCmd that match no entry of SensorReadCmd.
Unmatched ==
    SelectSeq(WireList("SensorSubscribeCmd"),
              LAMBDA a : \A i \in 1..Len(WireList("SensorReadCmd")) :
                            SensorPair(WireList("SensorReadCmd")[i]) # SensorPair(a))

\* Slot i of the sensors is subscribable exactly when its pair is listed
\* under SensorSubscribeCmd, and keeps what SensorReadCmd said of it.
SlotAsListed(i) ==
    /\ devs[1].sensors[i].kind = "SubscribableSensor"
          <=> \E j \in 1..Len(WireList("SensorSubscribeCmd")) :
                 SensorPair(WireList("SensorSubscribeCmd")[j])
                    = SensorPair(WireList("SensorReadCmd")[i])
    /\ devs[1].sensors[i].kind \in {"GenericSensor", "SubscribableSensor"}
    /\ devs[1].sensors[i].index = i - 1
    /\ devs[1].sensors[i].description
          = Some(WireList("SensorReadCmd")[i].dict.FeatureDescriptor)
    /\ devs[1].sensors[i].type
          = Some(WireList("SensorReadCmd")[i].dict.SensorType)
    /\ devs[1].sensors[i].ranges
          = Some(WireList("SensorReadCmd")[i].dict.SensorRange)

\* C21: in a v3 Device built from any capability map, the sensor in slot i
\* is a SubscribableSensor if and only if the (feature_descriptor,
\* sensor_type) pair of SensorReadCmd entry i appears among the
\* SensorSubscribeCmd entries, also when several SensorReadCmd entries share
\* descriptor and type; a promoted sensor keeps index, descriptor, type and
\* ranges; a SensorSubscribeCmd entry that matches no sensor is logged and
\* creates no sensor.
C21_SubscribableIffListed ==
    (v = 3 /\ Built) =>
        /\ Len(devs[1].sensors) = Len(WireList("SensorReadCmd"))
        /\ \A i \in 1..Len(devs[1].sensors) : SlotAsListed(i)
        /\ devs[1].errors
              = [j \in 1..Len(Unmatched) |->
                    [level |-> "error",
                     what |-> "subscribable sensor not defined",
                     description |-> Some(Unmatched[j].dict.FeatureDescriptor),
                     type |-> Some(Unmatched[j].dict.SensorType)]]


\* The frame drawn was handled, or the list in it passed to _create_device.
Handed == log.n = 1

\* The names the drawn v0 map gives.
NamesGiven ==
    IF IsList(cin.messages)
    THEN {cin.messages.list[k] : k \in 1..Len(cin.messages.list)}
    ELSE DOMAIN cin.messages.dict

\* C26: a v0 Device is built from the list of message names of its
\* DeviceAdded or DeviceList entry: stop is supported exactly when
\* StopDeviceCmd is among them, and it has one actuator of its own kind,
\* indexed consecutively from 0, for each of SingleMotorVibrateCmd,
\* KiirooCmd, FleshlightLaunchFW12Cmd, LovenseCmd and VorzeA10CycloneCmd
\* that is among them; the construction does not raise, so that the entry
\* always yields a registered Device.
C26_V0DeviceBuilt ==
    (v = 0 /\ Handed) =>
        /\ log.raised = ""
        /\ Len(devs) = 1
        /\ DOMAIN devices = {cin.index}
        /\ devices[cin.index] = [dev |-> 1]
        /\ devs[1].stop <=> "StopDeviceCmd" \in NamesGiven
        /\ Len(devs[1].actuators)
              = Cardinality({k \in 1..Len(V0ActuatorNames) :
                                V0ActuatorNames[k][1] \in NamesGiven})
        /\ \A i \in 1..Len(devs[1].actuators) :
              devs[1].actuators[i].index = i - 1
        /\ \A k \in 1..Len(V0ActuatorNames) :
              V0ActuatorNames[k][1] \in NamesGiven
                 <=> \E i \in 1..Len(devs[1].actuators) :
                        devs[1].actuators[i].kind = V0ActuatorNames[k][2]

\* The parts are n of kind, indexed 0..n-1 in order.
CountedAs(parts, kind, n) ==
    /\ Len(parts) = n
    /\ \A i \in 1..Len(parts) :
          parts[i].kind = kind /\ parts[i].index = i - 1

\* The feature_count the drawn v1 or v2 map carries under name: 0 when it
\* carries none.
FeatureCountGiven(name) ==
    IF name \notin DOMAIN cin.messages.dict THEN 0
    ELSE IF "FeatureCount" \notin DOMAIN cin.messages.dict[name].dict THEN 0
    ELSE cin.messages.dict[name].dict.FeatureCount

\* C27: a v1 or v2 Device has, for each of VibrateCmd, LinearCmd and
\* RotateCmd that carries a feature_count n, exactly n actuators of that
\* kind with the indexes 0..n-1; a v3 Device has one ScalarActuator,
\* LinearActuator, RotatoryActuator and GenericSensor for each attributes
\* entry of ScalarCmd, LinearCmd, RotateCmd and SensorReadCmd, its index the
\* position of the entry; the capability entries that are not recognised
\* are logged and never make the construction fail.
C27_PartsAsCounted ==
    (v \in {1, 2, 3} /\ Handed) =>
        /\ Built
        /\ devs[1].unknown = DOMAIN cin.messages.dict \ PoppedNames(v)
        /\ v \in {1, 2} =>
              /\ CountedAs(devs[1].actuators, "VibrateActuator",
                           FeatureCountGiven("VibrateCmd"))
              /\ CountedAs(devs[1].linear_actuators, "LinearActuator",
                           FeatureCountGiven("LinearCmd"))
              /\ CountedAs(devs[1].rotatory_actuators, "RotatoryActuator",
                           FeatureCountGiven("RotateCmd"))
        /\ v = 3 =>
              /\ CountedAs(devs[1].actuators, "ScalarActuator",
                           Len(WireList("ScalarCmd")))
              /\ CountedAs(devs[1].linear_actuators, "LinearActuator",
                           Len(WireList("LinearCmd")))
              /\ CountedAs(devs[1].rotatory_actuators, "RotatoryActuator",
                           Len(WireList("RotateCmd")))
              /\ Len(devs[1].sensors) = Len(WireList("SensorReadCmd"))
              /\ \A i \in 1..Len(devs[1].sensors) :
                    /\ devs[1].sensors[i].kind
                          \in {"GenericSensor", "SubscribableSensor"}
                    /\ devs[1].sensors[i].index = i - 1

\* C28: Device.stop on a device whose capabilities do not include
\* StopDeviceCmd raises UnsupportedCommandError and sends nothing; on a
\* device that includes it, it sends exactly one StopDeviceCmd that carries
\* the index of the device.
C28_StopAsSupported ==
    \A c \in DevCallers :
        calls[c].op = "stop" =>
            IF devs[1].stop
            THEN /\ calls[c].raised = ""
                 /\ devs[1].index = cin.index
                 /\ Len(sent) = Cardinality({b \in DevCallers :
                                                calls[b].op = "stop"})
                 /\ Cardinality({k \in 1..Len(sent) :
                                   SentObject(k)[2].Id = calls[c].id}) = 1
                 /\ \A k \in 1..Len(sent) :
                       /\ Len(sent[k]) = 1
                       /\ SentObject(k)[1] = "StopDeviceCmd"
                       /\ SentObject(k)[2].DeviceIndex = devs[1].index
            ELSE /\ calls[c].pc = "done"
                 /\ calls[c].raised = "UnsupportedCommandError"
                 /\ sent = <<>>
                 /\ tasks = <<>>

\* stop was refused on a device built from a map without StopDeviceCmd.
C28_Witness ==
    /\ Built
    /\ "StopDeviceCmd" \notin DOMAIN cin.messages.dict
    /\ calls[1].op = "stop"
    /\ calls[1].raised = "UnsupportedCommandError"

-----------------------------------------------------------------------------
(* The id claims, over SpecIds.                                            *)

\* The id of the k-th message handed to the connector.
SentId(k) == sent[k][1][1][2].Id

\* C22: the id generator returns 1 on its first call and afterwards the
\* previous value plus one, until it has returned its upper bound (2^32 - 1
\* in the source), after which it returns 1 again; it never returns 0, and
\* every Outgoing message is constructed with an id between 1 and the upper
\* bound.
C22_IdsInRange ==
    /\ \A k \in 1..Len(sent) :
          /\ SentId(k) # 0
          /\ SentId(k) \in 1..AutoIncrementId_upper_bound
          /\ k = 1 => SentId(k) = 1
          /\ k > 1 =>
                SentId(k) = IF SentId(k - 1) = AutoIncrementId_upper_bound
                            THEN 1 ELSE SentId(k - 1) + 1
    /\ pointer = IF sent = <<>> THEN None ELSE Some(SentId(Len(sent)))

\* The generator has wrapped around: a message after the one with the upper
\* bound has id 1.
C22_Witness ==
    /\ Len(sent) > AutoIncrementId_upper_bound
    /\ SentId(AutoIncrementId_upper_bound) = AutoIncrementId_upper_bound
    /\ SentId(AutoIncrementId_upper_bound + 1) = 1

\* The caller c waits for a response that has not come.
Waiting(c) == calls[c].pc = "await" /\ ~futs[calls[c].future.fut].done

\* C23: no request is registered under an id that already has an unresolved
\* pending entry, also after the generator wrapped around: the callers that
\* wait wait under distinct ids, and the table holds for each of them the
\* future it awaits, so that no waiting caller is displaced.
C23_NoWaiterDisplaced ==
    \A c \in Callers :
        Waiting(c) =>
            /\ calls[c].id \in DOMAIN tasks
            /\ tasks[calls[c].id] = calls[c].future
            /\ \A d \in Callers \ {c} : Waiting(d) => calls[d].id # calls[c].id


-----------------------------------------------------------------------------
(* The event claims, over SpecEvents.                                      *)

\* The listeners of a chain up to the first that stops it, that one included.
UpToStop(callbacks) ==
    IF \A k \in 1..Len(callbacks) : callbacks[k] # "stop_chain" THEN callbacks
    ELSE SubSeq(callbacks, 1,
                CHOOSE k \in 1..Len(callbacks) :
                   /\ callbacks[k] = "stop_chain"
                   /\ \A h \in 1..(k - 1) : callbacks[h] # "stop_chain")

\* C25: an emit invokes the listeners of the event in the order they were
\* registered; a listener that raises the stop-chain signal keeps the later
\* listeners of that emit from being invoked, and no error reaches the
\* emitter; an emit on a name that was never registered raises
\* NonexistentEvent when strict and does nothing otherwise.  Stated of the
\* manager after each emit, before being its events when emit was called.
C25_EmitInOrder ==
    (ws.op # None /\ ws.op.name = "emit") =>
        /\ ws.events = ws.op.before
        /\ IF ws.op.event \in DOMAIN ws.op.before
           THEN /\ ws.invoked = UpToStop(ws.op.before[ws.op.event])
                /\ ws.raised = ""
           ELSE /\ ws.invoked = <<>>
                /\ ws.raised = IF ws.op.strict THEN "NonexistentEvent" ELSE ""

\* An emit whose second listener stopped the chain before a third.
C25_Witness ==
    /\ ws.op # None
    /\ ws.op.name = "emit"
    /\ ws.op.event \in DOMAIN ws.events
    /\ Len(ws.events[ws.op.event]) = 3
    /\ ws.events[ws.op.event][2] = "stop_chain"
    /\ ws.events[ws.op.event][1] # "stop_chain"
    /\ Len(ws.invoked) = 2


-----------------------------------------------------------------------------
(* The refused calls, over Spec.                                           *)

\* C24: stop_scanning called while no scan future exists raises
\* ScanNotRunningError (as reconnect without a transport raises
\* ReconnectError); nothing is handed to the transport and the pending
\* table, the scan future and the registry stay as they were.  Stated of the
\* exception that a stop_scanning entered without a scan future ended with.
C24_NoScanRaises ==
    \A c \in Callers :
        (/\ calls[c].op = "stop_scanning"
         /\ calls[c].pc = "done"
         /\ calls[c].entry.scanning = None)
            => calls[c].raised = "ScanNotRunningError"


-----------------------------------------------------------------------------
(* Messages that match nothing, over Spec.                                 *)

\* The names of the Incoming classes a v3 client decodes.
IncomingNames == UNION {Incoming_registry(i) : i \in ProtocolSpec}

\* The newest module that defines the Incoming class name.
NewestOf(name) ==
    CHOOSE i \in ProtocolSpec :
        /\ name \in Incoming_registry(i)
        /\ \A j \in ProtocolSpec : name \in Incoming_registry(j) => j <= i

\* The names the handler has no branch for when the id is 0, and Error.
UnrecognisedNames ==
    {"Error", "Ok", "ServerInfo", "DeviceList", "BatteryLevelReading",
     "RSSILevelReading"}

\* The object of class name with id i, as on the wire.
ObjectWithId(name, i) ==
    WireObject(name, [WirePayload(NewestOf(name), name) EXCEPT !.Id = i])

\* The frames of one message that may match nothing: every variant with
\* each id from 1 to one past the ids of a run, and with id 0 the variants
\* that are no event.
DropFrames ==
    Flatten([i \in 1..(MaxMessages + 1) |->
               [k \in 1..Cardinality(IncomingNames) |->
                   <<ObjectWithId(SetToSeq(IncomingNames)[k], i)>>]])
    \o [k \in 1..Cardinality(UnrecognisedNames) |->
           <<ObjectWithId(SetToSeq(UnrecognisedNames)[k], 0)>>]

\* client.py:103: self._decoder.decode(message) for each of them.
DropDecoded ==
    [f \in 1..Len(DropFrames) |->
        Decoder_decode(DropFrames[f], ProtocolSpec_last)]

\* The handler that ended in st logged one error and did nothing else.
LoggedAndDropped(st) ==
    /\ st.raised = ""
    /\ Len(st.out) = 1
    /\ st.out[1].level = "error"
    /\ st.called = <<>>
    /\ st.tasks = tasks
    /\ st.futs = futs
    /\ st.scanning = scanning
    /\ st.devices = devices
    /\ st.devs = devs

\* C29: an incoming message that is neither the response to a pending
\* request nor a recognised event is logged and dropped: every message with
\* an id other than 0 that has no entry in the pending table, whatever its
\* variant, and an Error or a variant that is no event with id 0.  The
\* pending table, the registry and the scan future stay as they were, no
\* callback is invoked and no future is fulfilled, so that no caller
\* resumes.  Stated of the handler in every state the client reaches, for
\* every such frame.
C29_UnmatchedDropped ==
    \A f \in 1..Len(DropFrames) :
        (/\ DropDecoded[f].raised = ""
         /\ DropDecoded[f].value[1] # None
         /\ DropDecoded[f].value[1].fields.id \notin DOMAIN tasks)
            => LoggedAndDropped(
                  Client_handle_message(ClientState, v, DropDecoded[f]))

\* The handler dropped an Ok whose id no request waits under, while a
\* request waits under another id.
C29_Witness ==
    /\ log.frame = <<WireObject("Ok", [Id |-> 2])>>
    /\ log.out = <<[level |-> "error",
                    what |-> "Message with unexpected Id received",
                    arg |-> 2]>>
    /\ DOMAIN tasks = {1}
    /\ \E c \in Callers : calls[c].pc = "await"


\* The frames that carry nothing but ScanningFinished, once or twice.
FinishedFrames ==
    {<<WireObject("ScanningFinished", [Id |-> 0])>>,
     <<WireObject("ScanningFinished", [Id |-> 0]),
       WireObject("ScanningFinished", [Id |-> 0])>>}

\* The futures as they are once the scan future holds the registry.
ScanFulfilled ==
    [futs EXCEPT ![scanning.fut] =
        [@ EXCEPT !.done = TRUE, !.result = [registry |-> TRUE]]]

\* C30: a ScanningFinished event fulfils the pending scan future with the
\* device map of the client and clears it, so that the next start_scanning
\* creates a new future and sends a new StartScanning; when no scan future
\* is pending the event changes nothing; no scan future is fulfilled more
\* than once.
C30_ScanFinishedOnce ==
    [][/\ (FrameHandled /\ log'.frame \in FinishedFrames) =>
             /\ log'.raised = ""
             /\ UNCHANGED <<tasks, devices, devs>>
             /\ IF scanning # None
                THEN /\ ~futs[scanning.fut].done
                     /\ futs' = ScanFulfilled
                     /\ scanning' = None
                ELSE UNCHANGED <<futs, scanning>>
       /\ \A i \in 1..Len(futs) :
             (futs[i].site = "start_scanning" /\ futs[i].done)
                => futs'[i] = futs[i]
       /\ \A c \in Callers :
             (/\ calls[c].pc = "idle"
              /\ calls'[c].op = "start_scanning"
              /\ scanning = None)
                => /\ scanning' = [fut |-> Len(futs) + 1]
                   /\ futs'[Len(futs) + 1] = Future("start_scanning")
                   /\ Len(sent') = Len(sent) + 1
                   /\ sent'[Len(sent')][1][1][1] = "StartScanning"]_vars

\* A second scan runs after the first one finished: its future is another
\* one, and StartScanning went out twice.
C30_Witness ==
    /\ scanning # None
    /\ ~futs[scanning.fut].done
    /\ \E i \in 1..Len(futs) :
          /\ i # scanning.fut
          /\ futs[i].site = "start_scanning"
          /\ futs[i].done
          /\ futs[i].result = [registry |-> TRUE]
    /\ Cardinality(SentNamed("StartScanning")) = 2


-----------------------------------------------------------------------------
(* The registry claims, over SpecReg.                                      *)

\* The Device objects built with index k, in the order they were built.
BuiltWith(k) == {n \in 1..Len(devs) : devs[n].index = k}

\* The Device object built last with index k.
LastBuilt(k) == CHOOSE n \in BuiltWith(k) : \A m \in BuiltWith(k) : m <= n

-----------------------------------------------------------------------------
(* The variant a name resolves to, over SpecCodec.                         *)

\* The version whose variant of N a decoder of version V is to construct.
VariantVersion(N, V) ==
    CASE N \in {"Ok", "Error", "ScanningFinished", "DeviceRemoved"} -> 0
      [] N = "ServerInfo" -> IF V >= 2 THEN 2 ELSE 0
      [] N \in {"DeviceList", "DeviceAdded"} -> V

\* C32: a name in the catalog of V with an Incoming variant registered at or
\* below V decodes under V to the variant of the greatest such version: Ok,
\* Error, ScanningFinished and DeviceRemoved to their v0 variants under
\* every V, ServerInfo to the v0 variant (with major, minor and build
\* version) under v0 and v1 and to the v2 variant under v2 and v3,
\* DeviceList and DeviceAdded to the variant that V itself defines.
C32_NewestVariant ==
    FrameDecoded =>
        \A j \in 1..Len(cout.frame) :
            NameAt(j) \in {"Ok", "Error", "ScanningFinished", "DeviceRemoved",
                           "ServerInfo", "DeviceList", "DeviceAdded"}
            => /\ NameAt(j) \in Incoming_messages(cin.ver)
               /\ VariantVersion(NameAt(j), cin.ver)
                     = Greatest(RegisteredAtOrBelow(NameAt(j), cin.ver))
               /\ cout.result.raised = "" =>
                     /\ cout.result.value[j].cls
                           = Class(VariantVersion(NameAt(j), cin.ver), NameAt(j))
                     /\ DOMAIN cout.result.value[j].fields \subseteq
                           IncomingFields(VariantVersion(NameAt(j), cin.ver),
                                          NameAt(j)).req
                           \cup IncomingFields(VariantVersion(NameAt(j), cin.ver),
                                               NameAt(j)).opt
                     /\ (NameAt(j) = "ServerInfo" /\ cin.ver <= 1)
                           => "major_version"
                                 \in DOMAIN cout.result.value[j].fields
               /\ cout.frame = <<WireObject(NameAt(j),
                                    WirePayload(VariantVersion(NameAt(j), cin.ver),
                                                NameAt(j)))>>
                     => cout.result.raised = ""

\* C32 witness: under v1 a ServerInfo decoded to the v0 variant and a
\* DeviceAdded in the same frame to the v1 variant.
C32_Witness ==
    /\ FrameDecoded
    /\ cin.ver = 1
    /\ Len(cout.frame) = 2
    /\ NameAt(1) = "ServerInfo"
    /\ NameAt(2) = "DeviceAdded"
    /\ cout.result.raised = ""
    /\ cout.result.value[1].cls = Class(0, "ServerInfo")
    /\ cout.result.value[1].fields.major_version = 1
    /\ cout.result.value[2].cls = Class(1, "DeviceAdded")


-----------------------------------------------------------------------------
(* Frames with an unsupported element, over Spec.                          *)

\* Objects a v3 decoder refuses: a name no version knows, and a name that v2
\* registers and v3 has deleted.
UnsupportedObjects ==
    <<WireObject("Unknown", [Id |-> 1]),
      WireObject("BatteryLevelReading",
                 [Id |-> 1, DeviceIndex |-> 0, BatteryLevel |-> 1])>>

\* Each object of the server before and after each of them.
AbortFrames ==
    Flatten([a \in 1..Len(ServerObjects) |->
        Flatten([u \in 1..Len(UnsupportedObjects) |->
            <<<<ServerObjects[a], UnsupportedObjects[u]>>,
              <<UnsupportedObjects[u], ServerObjects[a]>>>>])])

\* client.py:103: self._decoder.decode(message) for each of them.
AbortDecoded ==
    [f \in 1..Len(AbortFrames) |->
        Decoder_decode(AbortFrames[f], ProtocolSpec_last)]

\* The handler that ended in st raised the decoder's error and routed
\* nothing.
AbortedUnrouted(st) ==
    /\ st.raised = UnsupportedMessage
    /\ st.out = <<>>
    /\ st.called = <<>>
    /\ st.tasks = tasks
    /\ st.futs = futs
    /\ st.scanning = scanning
    /\ st.devices = devices
    /\ st.devs = devs

\* The handler that ended in whole on a frame of two messages did what the
\* handler does on the first message and, unless that raised, what it then
\* does on the second.
RoutedInOrder(whole, first, b) ==
    whole = IF first.raised # "" THEN first
            ELSE Client_handle_message(first, v, ServerDecoded[v][b])

\* C33: the handler decodes the whole frame before it routes any of its
\* messages.  When an element of the frame is an unsupported message the
\* error is raised and no message of the frame is routed: no future is
\* fulfilled, the pending table, the registry and the scan future are
\* unchanged.  Otherwise the messages are routed one at a time in the order
\* of the frame.  Stated of the handler in every state the client reaches.
C33_DecodedBeforeRouted ==
    /\ \A f \in 1..Len(AbortFrames) :
          AbortedUnrouted(Client_handle_message(ClientState, v, AbortDecoded[f]))
    /\ \A a, b \in 1..Len(ServerObjects) :
          RoutedInOrder(
             Client_handle_message(ClientState, v,
                ServerDecoded[v][Len(ServerObjects)
                                 + (a - 1) * Len(ServerObjects) + b]),
             Client_handle_message(ClientState, v, ServerDecoded[v][a]),
             b)

\* The handler took a frame that adds the device and then removes it, while
\* a request waits whose Ok an aborted frame would carry.
C33_Witness ==
    /\ log.frame = <<WireObject("DeviceAdded", WirePayload(3, "DeviceAdded")),
                     WireObject("DeviceRemoved", [Id |-> 0, DeviceIndex |-> 0])>>
    /\ log.raised = ""
    /\ Len(log.out) = 2
    /\ log.out[1].what = "Device added"
    /\ log.out[2].what = "Device removed"
    /\ devices = <<>>
    /\ 1 \in DOMAIN tasks
    /\ AbortFrames[1][1] = WireObject("Ok", [Id |-> 1])
    /\ AbortDecoded[1] = Raise(UnsupportedMessage)


-----------------------------------------------------------------------------
(* The connected flag, over SpecLink.                                      *)

\* The step is disconnect() on a connector that has a connection, or the
\* end of the receive loop: both emit 'disconnect'.
DisconnectEmitted ==
    \/ ws.connection # "none" /\ ws' = WebsocketConnector_disconnect(ws)
    \/ ws.loop = "running" /\ ws'.loop = "ended"

-----------------------------------------------------------------------------
(* The ping loops of a client, over SpecLife.                              *)

\* The ping loop tasks that have not ended.
Running == {t \in 1..Len(calls.pings) : calls.pings[t].ended = ""}

\* C35: at most one ping loop task is running for a client at any time, also
\* after connect or reconnect is called again: the task an earlier handshake
\* started is not left running beside a new one (a task that runs is the
\* one Client._ping_loop_task refers to), and once disconnect has completed
\* and cleared the handle no ping loop of the client is left to hand a Ping
\* to the transport.
C35_OnePingLoop ==
    /\ Cardinality(Running) <= 1
    /\ \A t \in Running : t = calls.handle
    /\ (calls.disconnect.pc = "done" /\ calls.disconnect.raised = ""
          /\ calls.handle = 0)
          => Running = {}


-----------------------------------------------------------------------------
(* Readings after the Ok of a subscribe, over SpecDev.                     *)

\* Caller c subscribed to a sensor of a Device that is still registered, and
\* the Ok to its request has been handled.
SubscribeAnswered(c) ==
    /\ ThroughSend(c)
    /\ calls[c].op = "subscribe"
    /\ calls[c].pc \in {"await", "done"}
    /\ futs[calls[c].future.fut].done
    /\ ResponseOf(c).cls = Class(0, "Ok")
    /\ \E d \in DOMAIN devices : devices[d].dev = calls[c].local.dev

\* The frame handled last holds pushed readings of the sensor caller c
\* subscribed to, and nothing else.
ReadingsFor(c) ==
    /\ log.frame # <<>>
    /\ \A j \in 1..Len(log.frame) :
          /\ log.frame[j][1][1] = "SensorReading"
          /\ log.frame[j][1][2].Id = 0
          /\ log.frame[j][1][2].DeviceIndex \in DOMAIN devices
          /\ devices[log.frame[j][1][2].DeviceIndex].dev = calls[c].local.dev
          /\ log.frame[j][1][2].SensorIndex = calls[c].local.k - 1

\* C36: after the server's Ok to a subscribe(cb) request has been handled,
\* every server-initiated SensorReading for that sensor that is handled
\* afterwards is delivered to cb, also one handled before the subscribing
\* caller has been resumed: when the frame handled last held readings of the
\* sensor of an answered subscribe, each of them was handed to cb.
C36_ReadingsReachSubscriber ==
    \A c \in DevCallers :
        (SubscribeAnswered(c) /\ ReadingsFor(c))
           => /\ log.raised = ""
              /\ log.called = [j \in 1..Len(log.frame) |->
                                  [callback |-> calls[c].local.cb,
                                   data |-> log.frame[j][1][2].Data]]


-----------------------------------------------------------------------------
(* Devices that left the registry, over SpecReg.                           *)

\* The Device objects the registry holds.
Registered == {devices[k].dev : k \in DOMAIN devices}

\* C37: when a DeviceAdded event or a DeviceList entry arrives for an index
\* that is already in the registry, the new Device replaces the old one and
\* the replaced Device is marked removed; hence at any time every Device
\* that was once in the registry and no longer is has removed = true.
C37_GoneIsRemoved ==
    \A n \in 1..Len(devs) : n \notin Registered => devs[n].removed


-----------------------------------------------------------------------------
(* DeviceRemoved for an index the registry does not hold, over Spec.       *)

\* The frame of a DeviceRemoved for index k followed by the Ok to request i.
RemovedThenOk(k, i) ==
    <<WireObject("DeviceRemoved", [Id |-> 0, DeviceIndex |-> k]),
      WireObject("Ok", [Id |-> i])>>

\* client.py:103: self._decoder.decode(message) for each of them.
RemovedDecoded ==
    [k \in 0..MaxDeviceIndex |->
        [i \in 1..MaxMessages |->
            Decoder_decode(RemovedThenOk(k, i), ProtocolSpec_last)]]

\* The handler that ended in st left the registry alone and fulfilled the
\* future of request i.
SkippedAndRouted(st, i) ==
    /\ st.raised = ""
    /\ st.devices = devices
    /\ st.devs = devs
    /\ i \notin DOMAIN st.tasks
    /\ st.futs[tasks[i].fut].done
    /\ st.futs[tasks[i].fut].result.cls = Class(0, "Ok")

\* C38: a server-initiated DeviceRemoved for an index that is not in the
\* registry leaves the registry unchanged and does not stop the routing of
\* the remaining messages of the same frame: a response that follows it in
\* the frame still resumes its waiter.  Stated of the handler in every state
\* the client reaches, for every frame of such a DeviceRemoved followed by
\* the Ok to a pending request.
C38_UnknownRemovalSkipped ==
    \A k \in 0..MaxDeviceIndex : \A i \in 1..MaxMessages :
        (/\ k \notin DOMAIN devices
         /\ i \in DOMAIN tasks
         /\ ~futs[tasks[i].fut].done)
            => SkippedAndRouted(
                  Client_handle_message(ClientState, v, RemovedDecoded[k][i]),
                  i)


-----------------------------------------------------------------------------
(* The pending table and its waiters, over SpecLife.                       *)

\* A coroutine is suspended in Client.send at the await of the future filed
\* under id i: _connect, or a ping loop.
Suspended(i) ==
    \/ /\ calls.connect.pc = "await"
       /\ calls.connect.id = i
       /\ calls.connect.future = tasks[i]
    \/ \E t \in 1..Len(calls.pings) :
          /\ calls.pings[t].pc = "await"
          /\ calls.pings[t].id = i
          /\ calls.pings[t].future = tasks[i]

\* C39: every entry of the pending table belongs to a caller that is
\* suspended in Client.send waiting for it: when the transport's send
\* raises, or when the waiting task is cancelled (as the ping loop is by
\* disconnect while it awaits a Ping response), the entry does not stay in
\* the table, and a response that arrives later for that id is handled as an
\* unexpected id without raising an error inside the handler.
C39_EntriesHaveWaiters ==
    /\ \A i \in DOMAIN tasks : Suspended(i) /\ ~futs[tasks[i].fut].done
    /\ log.raised = ""


-----------------------------------------------------------------------------
(* The end of disconnect, over SpecLife.                                   *)

\* connector.disconnect() was called.
TransportClosed == \E j \in 1..Len(ws.trace) : ws.trace[j] = "disconnect"

\* C40: disconnect always reaches transport.disconnect and clears the
\* ping-loop handle, also when the ping loop has already ended on its own
\* with an error; an error of the ping loop never prevents the transport
\* from being closed.  A disconnect that has ended has ended without an
\* error, has called connector.disconnect(), and the handle no longer refers
\* to the task it was called to stop.
C40_DisconnectCloses ==
    calls.disconnect.pc = "done"
       => /\ calls.disconnect.raised = ""
          /\ TransportClosed
          /\ calls.disconnect.local # None
                => calls.handle # calls.disconnect.local.task

====
